---- MODULE Spec2Model ----
(***************************************************************************)
(* The reconnectable session layer of the server: connection sessions      *)
(* (AbstractConnection, ManagementConnection, ExtensionHostConnection),    *)
(* the ServerProtocol they own and the wire socket under it.               *)
(*                                                                         *)
(* Handlers run to completion on the single event loop, so every action    *)
(* below is one whole handler.  A handler is written as a chain of         *)
(* operators on a "world" record w (the objects' fields plus the list of   *)
(* calls the handler has made so far); the action commits the final world. *)
(***************************************************************************)
EXTENDS Integers, Sequences, FiniteSets, TLC

\* ------------------------------------------------------------------ bounds
MaxProtocols == 3      \* sockets accepted in one behaviour (1 + reconnects)
MaxBytes == 2          \* payload bytes the client sends
MaxTime == 2           \* the clock runs from 1 to MaxTime

Sessions == {1}

VARIABLES
    chan,       \* the IPC channel handlers and the channel registry
    hs,         \* the handshake in progress on a freshly accepted socket
    conn,     \* conn[s]: the fields of connection session s
    proto,    \* proto[p]: the fields of ServerProtocol object p (a sequence)
    sock,     \* sock[k]: the fields of ServerSocket k; protocol p is created on socket p
    pending,  \* pending[s]: the protocol of a freshly accepted socket, not yet given to s (0: none)
    recv,     \* recv[s]: payload bytes of session s's stream read from a socket so far
    now,      \* the value Date.now() returned when it was last read
    last,     \* the handler that ran last
    ops,      \* the calls that handler made, in order
    wsock,    \* one ServerSocket with its ServerWebSocket and the listeners' view of it
    store     \* the callback store of the incoming request service

vars == <<conn, proto, sock, pending, recv, now, last, ops, hs, chan, wsock, store>>

\* ------------------------------------------------------------- the world
\* threw: an exception is propagating; ret: the value the last call returned;
\* reenter, ipcOk: what the handler's collaborators do (chosen by the action).
World == [conn |-> conn, proto |-> proto, sock |-> sock, ops |-> <<>>,
          threw |-> FALSE, ret |-> FALSE, reenter |-> FALSE, ipcOk |-> TRUE,
          sendFails |-> FALSE]

Commit(w) ==
    /\ conn' = w.conn
    /\ proto' = w.proto
    /\ sock' = w.sock
    /\ ops' = w.ops

Op(name, p, k, m, buf) == [op |-> name, p |-> p, k |-> k, m |-> m, buf |-> buf]

Log(w, e) == [w EXCEPT !.ops = Append(@, e)]

\* The fields of a session.  kind "none": not constructed yet.  The counters
\* and delivered record what has happened to the session: doDispose runs, close
\* events fired, and the payload bytes its protocol has given up (to the IPC
\* server, or to the child process bridge).  childGot: the payload bytes the
\* child process has taken, from handoff messages and from sockets it holds.
NoConn ==
    [kind |-> "none", disposed |-> FALSE, offline |-> 0, protocol |-> 0,
     doDisposeCount |-> 0, closeCount |-> 0,
     delivered |-> <<>>,
     \* ExtensionHostConnection
     terminating |-> FALSE, terminatePc |-> "idle",
     clientProcess |-> "none", ready |-> FALSE, startPc |-> "idle",
     snapshot |-> [chunk |-> <<>>, handle |-> 0],
     childSocket |-> 0, childGot |-> <<>>, exitFired |-> 0]

NewProtocol(k) ==
    [socket |-> k, oldSocket |-> 0, disposed |-> FALSE, incoming |-> <<>>,
     reconnecting |-> FALSE, sent |-> <<>>]

NewSocket == [closed |-> FALSE, disposed |-> FALSE, paused |-> FALSE]

\* ------------------------------------------------------ wire socket adapter
\* ServerWebSocket.close, reached through ServerSocket.dispose.
socketDispose(w, k) ==
    Log([w EXCEPT !.sock[k].closed = TRUE, !.sock[k].disposed = TRUE],
        Op("socket.dispose", 0, k, "", <<>>))

\* ------------------------------------------------------ persistent protocol
\* PersistentProtocol.sendControl: a control message written to the attached socket.
\* sendFails: the write throws (the socket is already gone).
sendControl(w, p, m) ==
    IF w.sendFails
    THEN Log([w EXCEPT !.threw = TRUE],
             Op("sendControl: threw", p, w.proto[p].socket, m, <<>>))
    ELSE Log([w EXCEPT !.proto[p].sent = Append(@, m)],
             Op("sendControl", p, w.proto[p].socket, m, <<>>))

\* PersistentProtocol.send: a payload message written to the attached socket.
send(w, p, m) ==
    Log([w EXCEPT !.proto[p].sent = Append(@, m)],
        Op("send", p, w.proto[p].socket, m, <<>>))

\* PersistentProtocol.sendDisconnect.
sendDisconnect(w, p) == sendControl(w, p, "disconnect")

\* PersistentProtocol.readEntireBuffer: the bytes read and not delivered ...
bufferOf(w, p) == w.proto[p].incoming

\* ... which the call drains.
readEntireBuffer(w, p) ==
    Log([w EXCEPT !.proto[p].incoming = <<>>],
        Op("readEntireBuffer", p, w.proto[p].socket, "", w.proto[p].incoming))

\* Phase 1 of the socket swap: attach the new socket and replay the bytes the
\* reconnecting protocol had read into the incoming stream; nothing is delivered.
beginAcceptReconnection(w, p, k, buf) ==
    Log([w EXCEPT !.proto[p].reconnecting = TRUE,
                  !.proto[p].oldSocket = w.proto[p].socket,
                  !.proto[p].socket = k,
                  !.proto[p].incoming = @ \o buf],
        Op("beginAcceptReconnection", p, k, "", buf))

\* Phase 2: the swap is final and the old socket is discarded.
endAcceptReconnection(w, p) ==
    LET old == w.proto[p].oldSocket
        w1 == [w EXCEPT !.proto[p].reconnecting = FALSE, !.proto[p].oldSocket = 0]
        w2 == Log(w1, Op("endAcceptReconnection", p, w.proto[p].socket, "", <<>>))
    IN  IF old # 0 /\ old # w.proto[p].socket THEN socketDispose(w2, old) ELSE w2

\* PersistentProtocol.dispose: timers and socket listeners go, the socket stays.
protocolDispose(w, p) ==
    Log([w EXCEPT !.proto[p].disposed = TRUE],
        Op("protocol.dispose", p, w.proto[p].socket, "", <<>>))

\* ---------------------------------------------------------- ServerProtocol
sendMessage(w, p, m) == sendControl(w, p, m)

RECURSIVE dispose(_, _)

\* The onDidDispose listeners of protocol p: ManagementConnection registers
\* () => this.dispose('Explicitly closed') on the protocol it is built with.
fireOnDidDispose(w, p) ==
    LET owners == {s \in DOMAIN w.conn :
                      w.conn[s].kind = "management" /\ w.conn[s].protocol = p}
    IN  IF owners = {} THEN w
        ELSE dispose(Log(w, Op("onDidDispose", p, 0, "", <<>>)), CHOOSE s \in owners : TRUE)

\* ServerProtocol.destroy(reason?): notify, dispose the protocol, dispose the socket.
\* w.reenter: the protocol's dispose notification reaches its listeners while
\* destroy is running.
\* The try block of destroy: the error message, if a reason is given, then
\* the disconnect message; a send that throws ends the block.
destroy_sendError(w, p, reason) ==
    IF reason # "" THEN sendMessage(w, p, "error: " \o reason) ELSE w

destroy_sendDisconnect(w, p) == IF w.threw THEN w ELSE sendDisconnect(w, p)

destroy_try(w, p, reason) ==
    destroy_sendDisconnect(
        destroy_sendError(Log(w, Op("destroy", p, w.proto[p].socket, reason, <<>>)), p, reason),
        p)

\* The catch clause: the error is logged.
destroy_catch(t, p) ==
    IF t.threw
    THEN Log([t EXCEPT !.threw = FALSE], Op("logger.warn", p, 0, "", <<>>))
    ELSE t

\* The protocol's dispose notification, when it reaches listeners at once.
destroy_notify(w, p, reenter) ==
    IF reenter THEN fireOnDidDispose([w EXCEPT !.reenter = FALSE], p) ELSE w

destroy_socket(w, p) == socketDispose(w, w.proto[p].socket)

\* Mutant: the socket is left open.
destroy_leavesSocket(w, p, reason) ==
    protocolDispose(destroy_catch(destroy_try(w, p, reason), p), p)

destroy_uncaught(t, p) ==
    IF t.threw THEN t ELSE destroy_socket(protocolDispose(t, p), p)

\* Mutant: no catch clause; what a send throws leaves destroy.
destroy_rethrows(w, p, reason) == destroy_uncaught(destroy_try(w, p, reason), p)

destroy(w, p, reason) ==
    destroy_socket(
        destroy_notify(protocolDispose(destroy_catch(destroy_try(w, p, reason), p), p),
                       p, w.reenter),
        p)

\* ------------------------------------------------------ ManagementConnection
ManagementConnection_doDispose(w, s) == destroy(w, w.conn[s].protocol, "")

\* Mutant: the buffered bytes are read a second time for the swap, after they were drained.
ManagementConnection_doReconnect_dropsBuffer(w, s, p) ==
    LET w1 == sendMessage(w, p, "ok")
        w2 == readEntireBuffer(w1, p)
        buf == bufferOf(w2, p)
        w3 == beginAcceptReconnection(w2, w.conn[s].protocol, w2.proto[p].socket, buf)
        w4 == endAcceptReconnection(w3, w.conn[s].protocol)
    IN  protocolDispose(w4, p)

\* Mutant: endAcceptReconnection is forgotten.
ManagementConnection_doReconnect_noEnd(w, s, p) ==
    LET w1 == sendMessage(w, p, "ok")
        buf == bufferOf(w1, p)
        w2 == readEntireBuffer(w1, p)
        w3 == beginAcceptReconnection(w2, w.conn[s].protocol, w2.proto[p].socket, buf)
    IN  protocolDispose(w3, p)

\* Mutant: the acknowledgement is sent after the swap instead of before it.
ManagementConnection_doReconnect_ackLast(w, s, p) ==
    LET buf == bufferOf(w, p)
        w2 == readEntireBuffer(w, p)
        w3 == beginAcceptReconnection(w2, w.conn[s].protocol, w2.proto[p].socket, buf)
        w4 == endAcceptReconnection(w3, w.conn[s].protocol)
        w5 == sendMessage(w4, p, "ok")
    IN  protocolDispose(w5, p)

ManagementConnection_doReconnect(w, s, p) ==
    LET w1 == sendMessage(w, p, "ok")
        buf == bufferOf(w1, p)
        w2 == readEntireBuffer(w1, p)
        w3 == beginAcceptReconnection(w2, w.conn[s].protocol, w2.proto[p].socket, buf)
        w4 == endAcceptReconnection(w3, w.conn[s].protocol)
    IN  protocolDispose(w4, p)

\* ---------------------------------------------------- ExtensionHostConnection
\* Buffer.from(chunk).toString('base64') and the child's decoding of it.
toBase64(buf) == [i \in 1..Len(buf) |-> buf[i] + 64]

fromBase64(str) == [i \in 1..Len(str) |-> str[i] - 64]

\* ServerProtocol.suspend: take the buffered bytes and pause reading of the socket;
\* the caller gets {initialDataChunk, sendHandle}.  The bytes leave the protocol here.
suspend(w, s, p) ==
    LET k == w.proto[p].socket
        chunk == bufferOf(w, p)
        w1 == readEntireBuffer(w, p)
        w2 == [w1 EXCEPT !.sock[k].paused = TRUE,
                         !.conn[s].delivered = @ \o chunk]
    IN  Log(w2, Op("pause", p, k, "", <<>>))

\* ExtensionHostProcess.sendIPCMessage: true when the message was handed to the
\* child, which then decodes the chunk and reads the socket it was sent.
sendIPCMessage(w, s, msg, sendHandle) ==
    LET sent == w.ipcOk /\ w.conn[s].clientProcess = "running"
        w1 == IF sent
              THEN Log([w EXCEPT !.conn[s].childSocket = sendHandle,
                                 !.conn[s].childGot = @ \o fromBase64(msg.initialDataChunk)],
                       Op("child: socket received", 0, sendHandle,
                          IF w.conn[s].ready THEN "ready" ELSE "not ready",
                          fromBase64(msg.initialDataChunk)))
              ELSE w
    IN  Log([w1 EXCEPT !.ret = sent],
            Op("sendIPCMessage", 0, sendHandle, msg.type, msg.initialDataChunk))

\* ExtensionHostConnection.sendInitMessage.
sendInitMessage(w, s, initialDataChunk, sendHandle) ==
    IF w.conn[s].clientProcess = "none"
    THEN [w EXCEPT !.threw = TRUE]
    ELSE sendIPCMessage(w, s,
                        [type |-> "VSCODE_EXTHOST_IPC_SOCKET",
                         initialDataChunk |-> toBase64(initialDataChunk)],
                        sendHandle)

\* ExtensionHostProcess.dispose: the child process is killed.
clientProcessDispose(w, s) ==
    IF w.conn[s].clientProcess = "none" THEN w
    ELSE Log([w EXCEPT !.conn[s].clientProcess = "disposed"],
             Op("clientProcess.dispose", 0, 0, "", <<>>))

ExtensionHostConnection_doDispose(w, s) ==
    clientProcessDispose(protocolDispose(w, w.conn[s].protocol), s)

ExtensionHostConnection_doReconnect(w, s, p) ==
    LET r == w.conn[s].protocol
        w1 == sendMessage(w, p, "debug")
        buf == bufferOf(w1, p)
        w2 == readEntireBuffer(w1, p)
        w3 == beginAcceptReconnection(w2, r, w2.proto[p].socket, buf)
        w4 == endAcceptReconnection(w3, r)
        initialDataChunk == bufferOf(w4, r)
        sendHandle == w4.proto[r].socket
        w5 == suspend(w4, s, r)
    IN  \* a failed send builds an Error and drops it: nothing is thrown
        sendInitMessage(w5, s, initialDataChunk, sendHandle)

\* start(), up to its first await: the debug message and the snapshot.
ExtensionHostConnection_start(w, s) ==
    LET r == w.conn[s].protocol
        w1 == sendMessage(w, r, "debug")
        initialDataChunk == bufferOf(w1, r)
        sendHandle == w1.proto[r].socket
        w2 == suspend(w1, s, r)
    IN  [w2 EXCEPT !.conn[s].snapshot = [chunk |-> initialDataChunk, handle |-> sendHandle],
                   !.conn[s].startPc = "generating"]

\* start(), after generateClientOptions: the child process is created.
ExtensionHostConnection_spawn(w, s, optionsOk) ==
    IF optionsOk
    THEN Log([w EXCEPT !.conn[s].clientProcess = "running", !.conn[s].startPc = "spawned"],
             Op("new ExtensionHostProcess", 0, 0, "", <<>>))
    ELSE [w EXCEPT !.conn[s].startPc = "failed", !.threw = TRUE]

\* The onReady callback registered by start().
ExtensionHostConnection_onReady(w, s) ==
    LET w0 == [w EXCEPT !.conn[s].ready = TRUE]
        w1 == sendInitMessage(w0, s, w.conn[s].snapshot.chunk, w.conn[s].snapshot.handle)
    IN  IF w.conn[s].startPc # "spawned" THEN w1
        ELSE [w1 EXCEPT !.conn[s].startPc = IF w1.ret THEN "resolved" ELSE "rejected"]

\* The constructor: nothing beyond AbstractConnection's.
ExtensionHostConnection_new(w, s, p) ==
    [w EXCEPT !.conn[s] = [NoConn EXCEPT !.kind = "exthost", !.protocol = p]]

\* ------------------------------- ExtensionHostConnection, the earlier version
\* (kind "exthostEarlier").  sendIPCMessage throws without a process and
\* otherwise returns what process.send returns.
Earlier_sendIPCMessage(w, s, msg, sendHandle) ==
    IF w.conn[s].clientProcess = "none"
    THEN [w EXCEPT !.threw = TRUE]
    ELSE sendIPCMessage(w, s, msg, sendHandle)

\* sendInitMessage(buffer): the handle is the socket the protocol has now.
Earlier_sendInitMessage(w, s, buffer) ==
    Earlier_sendIPCMessage(Log(w, Op("logger.debug", 0, 0, "Sending socket", <<>>)), s,
                           [type |-> "VSCODE_EXTHOST_IPC_SOCKET",
                            initialDataChunk |-> toBase64(buffer)],
                           w.proto[w.conn[s].protocol].socket)

\* The constructor: debug message, drain the protocol, pause the socket, and
\* call spawn(buffer), which runs to its first await.
Earlier_new(w, s, p) ==
    LET w0 == [w EXCEPT !.conn[s] = [NoConn EXCEPT !.kind = "exthostEarlier", !.protocol = p]]
        w1 == sendMessage(w0, p, "debug")
        buffer == bufferOf(w1, p)
        w2 == readEntireBuffer(w1, p)
        k == w2.proto[p].socket
        w3 == Log([w2 EXCEPT !.sock[k].paused = TRUE], Op("pause", p, k, "", <<>>))
    IN  [w3 EXCEPT !.conn[s].snapshot = [chunk |-> buffer, handle |-> k],
                   !.conn[s].startPc = "generating"]

\* spawn(buffer) after getNlsConfiguration: the child is forked, and the
\* constructor's then-callback stores it in this.process.
Earlier_spawn(w, s) ==
    Log([w EXCEPT !.conn[s].clientProcess = "running", !.conn[s].startPc = "spawned"],
        Op("fork", 0, 0, "", <<>>))

\* The child's VSCODE_EXTHOST_IPC_READY message: sendInitMessage(buffer) with
\* the buffer spawn was called with.
Earlier_onReady(w, s) ==
    Earlier_sendInitMessage([w EXCEPT !.conn[s].ready = TRUE], s, w.conn[s].snapshot.chunk)

Earlier_kill(w, s) ==
    IF w.conn[s].clientProcess = "running"
    THEN Log([w EXCEPT !.conn[s].clientProcess = "disposed"],
             Op("process.kill", 0, 0, "", <<>>))
    ELSE w

Earlier_doDispose(w, s) == Earlier_kill(destroy(w, w.conn[s].protocol, ""), s)

\* doReconnect: the swap is given the first readEntireBuffer(), the child the
\* second one; the new socket is not paused.
Earlier_doReconnect(w, s, p) ==
    LET r == w.conn[s].protocol
        buf == bufferOf(w, p)
        w1 == readEntireBuffer(w, p)
        w2 == beginAcceptReconnection(w1, r, w1.proto[p].socket, buf)
        w3 == endAcceptReconnection(w2, r)
        w4 == sendMessage(w3, p, "debug")
        buffer == bufferOf(w4, p)
        w5 == readEntireBuffer(w4, p)
    IN  Earlier_sendInitMessage(w5, s, buffer)

\* -------------------------------------------------------- AbstractConnection
doDispose(w, s) ==
    LET w1 == [w EXCEPT !.conn[s].doDisposeCount = @ + 1]
    IN  IF w.conn[s].kind = "management"
        THEN ManagementConnection_doDispose(w1, s)
        ELSE IF w.conn[s].kind = "exthostEarlier"
        THEN Earlier_doDispose(w1, s)
        ELSE ExtensionHostConnection_doDispose(w1, s)

doReconnect(w, s, p) ==
    IF w.conn[s].kind = "management"
    THEN ManagementConnection_doReconnect(w, s, p)
    ELSE IF w.conn[s].kind = "exthostEarlier"
    THEN Earlier_doReconnect(w, s, p)
    ELSE ExtensionHostConnection_doReconnect(w, s, p)

\* this._onClose.fire(), reached when doDispose returned.
dispose_fireOnClose(w, s) ==
    IF w.threw THEN w
    ELSE Log([w EXCEPT !.conn[s].closeCount = @ + 1], Op("onClose.fire", 0, 0, "", <<>>))

\* Mutant: the disposed flag is set after doDispose has run instead of before.
dispose_flagAfter(w, s) ==
    IF w.conn[s].disposed THEN Log(w, Op("dispose: already disposed", 0, 0, "", <<>>))
    ELSE dispose_fireOnClose([doDispose(w, s) EXCEPT !.conn[s].disposed = TRUE], s)

\* Mutant: closing one session marks every session closed.
dispose_everySession(w, s) ==
    IF w.conn[s].disposed THEN Log(w, Op("dispose: already disposed", 0, 0, "", <<>>))
    ELSE dispose_fireOnClose(
            doDispose([w EXCEPT !.conn = [t \in DOMAIN w.conn |->
                                            [w.conn[t] EXCEPT !.disposed = TRUE]]], s), s)

\* AbstractConnection.dispose.
dispose(w, s) ==
    IF w.conn[s].disposed THEN Log(w, Op("dispose: already disposed", 0, 0, "", <<>>))
    ELSE dispose_fireOnClose(doDispose([w EXCEPT !.conn[s].disposed = TRUE], s), s)

\* Mutant: the offline timestamp is not cleared.
reconnect_keepsOffline(w, s, p) == doReconnect(w, s, p)

\* AbstractConnection.reconnect.
reconnect(w, s, p) ==
    doReconnect([w EXCEPT !.conn[s].offline = 0], s, p)

\* Mutant: the timestamp is taken on every call.
setOffline_noGuard(w, s, dateNow) == [w EXCEPT !.conn[s].offline = dateNow]

\* Mutant: going offline closes the session.
setOffline_disposes(w, s, dateNow) ==
    dispose(IF w.conn[s].offline = 0 THEN [w EXCEPT !.conn[s].offline = dateNow] ELSE w, s)

\* AbstractConnection.setOffline.
setOffline(w, s, dateNow) ==
    IF w.conn[s].offline = 0
    THEN [w EXCEPT !.conn[s].offline = dateNow]
    ELSE w

\* ExtensionHostConnection._onExtHostProcessExit.
onExit_logError(w, code, signal) ==
    IF code # 0 /\ signal # "SIGTERM"
    THEN Log(w, Op("logService.error", 0, code, signal, <<>>))
    ELSE w

onExit_fire(w, s, terminating, code, signal) ==
    IF terminating THEN w
    ELSE Log([w EXCEPT !.conn[s].exitFired = @ + 1],
             Op("onExit.fire", 0, code, signal, <<>>))

onExtHostProcessExit(w, s, code, signal) ==
    onExit_fire(onExit_logError(dispose(w, s), code, signal),
                s, w.conn[s].terminating, code, signal)

\* Mutant: releasing the child process also ends the terminating phase.
cleanResources_resets(w, s) ==
    [clientProcessDispose(w, s) EXCEPT !.conn[s].terminating = FALSE]

\* ExtensionHostConnection._cleanResources.
cleanResources(w, s) == clientProcessDispose(w, s)

\* ExtensionHostConnection.terminate, up to the wait for the start() promise.
terminate(w, s) ==
    IF w.conn[s].terminating THEN w
    ELSE LET w1 == dispose([w EXCEPT !.conn[s].terminating = TRUE], s)
         IN  [w1 EXCEPT !.conn[s].terminatePc =
                            IF w.conn[s].startPc = "idle" THEN "done" ELSE "waiting"]

\* terminate's continuation once the start() promise has resolved ...
terminate_onResolved(w, s) ==
    LET r == w.conn[s].protocol
        w1 == send(w, r, "Terminate")
        w2 == socketDispose(w1, w1.proto[r].socket)
        w3 == protocolDispose(w2, r)
    IN  [w3 EXCEPT !.conn[s].terminatePc = "timer"]

\* ... or rejected.
terminate_onRejected(w, s) ==
    [cleanResources(w, s) EXCEPT !.conn[s].terminatePc = "done"]

\* The 10 s timer set by terminate's continuation.
terminate_onTimeout(w, s) ==
    [cleanResources(w, s) EXCEPT !.conn[s].terminatePc = "done"]

\* ManagementConnection's constructor.
ManagementConnection_new(w, s, p) ==
    LET w1 == [w EXCEPT !.conn[s] = [NoConn EXCEPT !.kind = "management", !.protocol = p]]
    IN  sendMessage(w1, p, "ok")

\* ------------------------------------------------------------------ handshake
\* ServerProtocol.handshake() on one freshly accepted socket.  hs holds the
\* promise, the two listeners and the timer the call creates, and counts what
\* the callbacks do.
MaxControlMessages == 3    \* control messages the client sends during one handshake

HANDSHAKE_TIMEOUT_DURATION == 10000

ConnectionTypes == {"Management", "ExtensionHost", "Tunnel"}

\* What the client can put on the control channel: well-formed JSON of the
\* three kinds the handler distinguishes, and text that is not JSON.
ReconnectionTokens == {"", "token"}

RawMessages ==
    {[json |-> TRUE, type |-> "auth", desiredConnectionType |-> "", reconnectionToken |-> ""],
     [json |-> TRUE, type |-> "somethingElse", desiredConnectionType |-> "", reconnectionToken |-> ""],
     [json |-> FALSE, type |-> "", desiredConnectionType |-> "", reconnectionToken |-> ""]}
    \cup {[json |-> TRUE, type |-> "connectionType", desiredConnectionType |-> c,
            reconnectionToken |-> k] : c \in ConnectionTypes, k \in ReconnectionTokens}

NoValue == [json |-> FALSE, type |-> "", desiredConnectionType |-> "", reconnectionToken |-> ""]

\* What happened last on the socket under handshake: "call", "message", "timer"
\* or "close"; the message that arrived; the promise as the event found it.
HandshakeEvent(kind, raw) == [kind |-> kind, raw |-> raw, found |-> hs.promise,
                              signs |-> hs.signs]

NoEvent == [kind |-> "", raw |-> NoValue, found |-> "none", signs |-> 0]

NoHandshake ==
    [promise |-> "none", value |-> NoValue, error |-> "", settleCalls |-> 0,
     handler |-> FALSE, onClose |-> FALSE, timeout |-> FALSE, cleanups |-> 0,
     signs |-> 0, arrived |-> 0, socketClosed |-> FALSE, elapsed |-> 0, late |-> 0,
     exception |-> "", event |-> NoEvent, enqueued |-> <<>>, seen |-> <<>>]

Settled == {"resolved", "rejected"}

\* Mutant: cleanup leaves the timer armed.
cleanup_keepsTimer(h) ==
    [h EXCEPT !.handler = FALSE, !.onClose = FALSE, !.cleanups = @ + 1]

\* const cleanup = () => { handler.dispose(); onClose.dispose(); clearTimeout(timeout) }
cleanup(h) ==
    [h EXCEPT !.handler = FALSE, !.onClose = FALSE, !.timeout = FALSE,
              !.cleanups = @ + 1]

\* The promise's resolve function: only the first settlement takes effect.
resolve(h, message) ==
    [h EXCEPT !.settleCalls = @ + 1,
              !.promise = IF @ = "pending" THEN "resolved" ELSE @,
              !.value = IF h.promise = "pending" THEN message ELSE @]

\* The promise's reject function.
reject(h, error) ==
    [h EXCEPT !.settleCalls = @ + 1,
              !.promise = IF @ = "pending" THEN "rejected" ELSE @,
              !.error = IF h.promise = "pending" THEN error ELSE @]

\* Mutant: no challenge is sent.
authenticate_silent(h) == h

\* ServerProtocol.authenticate: sends the {type:'sign'} challenge.
authenticate(h) == [h EXCEPT !.signs = @ + 1]

\* The onSocketClose listener of handshake().
handshake_onClose(h) == reject(cleanup(h), "Protocol socket closed unexpectedly")

\* Mutant: the timer callback cleans up and leaves the promise pending.
handshake_timeout_noReject(h) == cleanup(h)

\* The setTimeout callback of handshake().
handshake_timeout(h) == reject(cleanup(h), "Protocol handshake timed out")

\* The try block of the onControlMessage listener: JSON.parse, then the
\* switch.  exception: what the block threw, "" if it completed.
handshake_try(h, raw) ==
    IF ~raw.json THEN [h EXCEPT !.exception = "SyntaxError"]
    ELSE CASE raw.type = "auth" -> authenticate(h)
           [] raw.type = "connectionType" -> resolve(cleanup(h), raw)
           [] OTHER -> [h EXCEPT !.exception = "Unrecognized message type"]

\* Mutant: the listener without its catch clause.
handshake_handler_noCatch(h, raw) == handshake_try(h, raw)

\* The onControlMessage listener of handshake(): the try block, and the catch
\* clause that cleans up and rejects with what was thrown.
handshake_handler(h, raw) ==
    LET t == handshake_try(h, raw)
    IN  IF t.exception # ""
        THEN reject(cleanup([t EXCEPT !.exception = ""]), t.exception)
        ELSE t

\* The executor of the promise handshake() returns.
handshake(h) ==
    authenticate([h EXCEPT !.promise = "pending", !.onClose = TRUE,
                           !.timeout = TRUE, !.handler = TRUE])

\* A frame on the wire: a control message or one payload message.
ControlFrame(raw) == [control |-> TRUE, raw |-> raw]

PayloadFrame == [control |-> FALSE, raw |-> NoValue]

FrameKind(f) == IF f.control THEN "control" ELSE "payload"

\* The protocol takes one frame off the socket: a control message goes to the
\* onControlMessage listeners at once, a payload message joins the messages
\* waiting for the application.  st: the handshake, the protocol's unread
\* payload and the count of payload bytes read.
dispatch(st, f) ==
    LET seen == [st EXCEPT !.h.seen = Append(@, FrameKind(f))]
    IN  IF f.control
        THEN [seen EXCEPT !.h = IF @.handler THEN handshake_handler(@, f.raw) ELSE @]
        ELSE [seen EXCEPT !.recv = @ + 1, !.incoming = Append(@, st.recv + 1)]

RECURSIVE dispatchAll(_, _)

dispatchAll(st, frames) ==
    IF frames = <<>> THEN st
    ELSE dispatchAll(dispatch(st, Head(frames)), Tail(frames))

\* Mutant: the payload messages of a write are taken before its control messages.
receive_payloadFirst(st, frames) ==
    dispatchAll(st, SelectSeq(frames, LAMBDA f : ~f.control)
                        \o SelectSeq(frames, LAMBDA f : f.control))

\* The frames of one socket write, taken in the order they were written.
receive(st, frames) == dispatchAll(st, frames)

\* An event that finds the promise already settled.
Late(h) == IF hs.promise \in Settled THEN [h EXCEPT !.late = @ + 1] ELSE h

\* ------------------------------------------------------------------ actions
\* ------------------------------------------------------------ IPC channels
\* chan holds the channel registry of the IPC server and the fields of the
\* channel handlers; chan.out is the outcome of the last call or listen:
\* "value" (a result), "throws", "rejects" (a rejected promise), "event" (an
\* event that can fire) or "none" (Event.None, which never fires).
MaxEmitters == 2       \* listen('filechange') calls in one behaviour
MaxListeners == 2      \* listeners on one emitter at a time
MaxWatchers == 3       \* Watcher objects created in one behaviour
MaxWatches == 2        \* watch commands that reach a Watcher
MaxRequests == 3       \* commands sent to the client by executeCommand

FileSessions == {"s1", "s2"}

WatchRequests == {1}

NoOutcome == [channel |-> "", op |-> "", name |-> "", kind |-> "", error |-> ""]

NoChannels ==
    [registry |-> <<>>, fatal |-> FALSE,
     \* FileProviderChannel
     watchers |-> [x \in FileSessions |-> 0], watcher |-> <<>>, emitter |-> <<>>,
     \* TerminalProviderChannel
     disposables |-> <<>>,
     pendingRequests |-> {}, lastRequestId |-> 0, requests |-> <<>>,
     result |-> [reqId |-> 0, isError |-> FALSE],
     \* ExtensionEnvironmentChannel
     telemetryEnabled |-> TRUE,
     out |-> NoOutcome]

Outcome(c, channel, op, name, kind, error) ==
    [c EXCEPT !.out = [channel |-> channel, op |-> op, name |-> name,
                       kind |-> kind, error |-> error]]

InvalidCall(command) == "Invalid call '" \o command \o "'"

InvalidListen(event) == "Invalid listen '" \o event \o "'"

\* IPCServer.registerChannel: a name that is already registered is a
\* programming error that ends the startup.
registerChannel(c, channelName) ==
    IF c.fatal THEN c
    ELSE IF \E i \in DOMAIN c.registry : c.registry[i] = channelName
    THEN [c EXCEPT !.fatal = TRUE]
    ELSE [c EXCEPT !.registry = Append(@, channelName)]

\* The names initChannels registers, in its order.
InitChannelNames ==
    <<"logger", "ExtensionHostDebugBroadcastChannel.ChannelName", "extensions",
      "remoteextensionsenvironment", "request", "localizations",
      "REMOTE_FILE_SYSTEM_CHANNEL_NAME", "REMOTE_TERMINAL_CHANNEL_NAME">>

RECURSIVE registerChannels(_, _)

registerChannels(c, names) ==
    IF names = <<>> THEN c
    ELSE registerChannels(registerChannel(c, Head(names)), Tail(names))

\* Mutant: the log-level channel is registered a second time.
initChannels_twice(c) == registerChannels(c, Append(InitChannelNames, "logger"))

\* ServerProcessMain.initChannels.
initChannels(c) == registerChannels(c, InitChannelNames)

\* ---- FileProviderChannel
FileCommands ==
    {"stat", "open", "close", "read", "readFile", "write", "writeFile", "delete",
     "mkdir", "readdir", "rename", "copy", "watch", "unwatch"}

\* The watches of watcher x registered under req: watches maps req to the
\* disposable that DiskFileSystemProvider.watch returned (disposables[d]).
WatchesOf(c, x, req) == {d \in c.watcher[x].watches : c.disposables[d].req = req}

\* disposable.dispose() for every disposable in ds.
disposeAll(c, ds) ==
    [c EXCEPT !.disposables = [d \in DOMAIN c.disposables |->
                                 IF d \in ds
                                 THEN [c.disposables[d] EXCEPT !.disposeCalls = @ + 1]
                                 ELSE c.disposables[d]]]

\* Watcher._watch: this.watches.set(req, this.watch(resource, opts)).
Watcher_watch(c, x, req) ==
    [c EXCEPT !.disposables = Append(@, [watcher |-> x, req |-> req, disposeCalls |-> 0]),
              !.watcher[x].watches = (@ \ WatchesOf(c, x, req)) \cup {Len(c.disposables) + 1}]

\* Watcher.unwatch: this.watches.get(req)!.dispose(), then delete.
Watcher_unwatch(c, x, req) ==
    [disposeAll(c, WatchesOf(c, x, req))
        EXCEPT !.watcher[x].watches = @ \ WatchesOf(c, x, req)]

\* watch(session, req, ...): this.watchers.get(session)!._watch(req, ...).
FileProviderChannel_watch(c, session, req) ==
    IF c.watchers[session] = 0
    THEN Outcome(c, "file", "call", "watch", "rejects", "TypeError")
    ELSE Outcome(Watcher_watch(c, c.watchers[session], req),
                 "file", "call", "watch", "value", "")

\* unwatch(session, req): this.watchers.get(session)!.unwatch(req).
FileProviderChannel_unwatch(c, session, req) ==
    IF c.watchers[session] = 0
    THEN Outcome(c, "file", "call", "unwatch", "rejects", "TypeError")
    ELSE IF WatchesOf(c, c.watchers[session], req) = {}
    THEN Outcome(c, "file", "call", "unwatch", "rejects", "TypeError")
    ELSE Outcome(Watcher_unwatch(c, c.watchers[session], req),
                 "file", "call", "unwatch", "value", "")

\* Mutant: a command without a case falls out of the switch and the call
\* returns undefined.
FileProviderChannel_call_silent(c, command, session, req) ==
    IF command = "watch" THEN FileProviderChannel_watch(c, session, req)
    ELSE IF command = "unwatch" THEN FileProviderChannel_unwatch(c, session, req)
    ELSE Outcome(c, "file", "call", command, "value", "")

FileProviderChannel_call(c, command, session, req) ==
    IF command = "watch" THEN FileProviderChannel_watch(c, session, req)
    ELSE IF command = "unwatch" THEN FileProviderChannel_unwatch(c, session, req)
    ELSE IF command \in FileCommands THEN Outcome(c, "file", "call", command, "value", "")
    ELSE Outcome(c, "file", "call", command, "throws", InvalidCall(command))

\* filechange(context, session): a new emitter for every listen call.
FileProviderChannel_filechange(c, session) ==
    Outcome([c EXCEPT !.emitter = Append(@, [session |-> session, listeners |-> 0])],
            "file", "listen", "filechange", "event", "")

FileProviderChannel_listen(c, event, session) ==
    IF event = "filechange" THEN FileProviderChannel_filechange(c, session)
    ELSE IF event = "readFileStream"
    THEN Outcome(c, "file", "listen", event, "event", "")
    ELSE Outcome(c, "file", "listen", event, "throws", InvalidListen(event))

\* Watcher.dispose: its watches are disposed with it.
Watcher_dispose(c, x) ==
    [disposeAll(c, c.watcher[x].watches)
        EXCEPT !.watcher[x].disposed = TRUE, !.watcher[x].watches = {}]

\* onFirstListenerAdd of a filechange emitter: a new Watcher is stored under
\* the session; it fires into the emitter that created it.
onFirstListenerAdd(c, e) ==
    [c EXCEPT !.watcher = Append(@, [disposed |-> FALSE, watches |-> {},
                                     session |-> c.emitter[e].session, emitter |-> e]),
              !.watchers[c.emitter[e].session] = Len(c.watcher) + 1]

\* onLastListenerRemove: this.watchers.get(session)!.dispose(), then delete.
onLastListenerRemove(c, e) ==
    IF c.watchers[c.emitter[e].session] = 0
    THEN Outcome(c, "file", "removeListener", "filechange", "throws", "TypeError")
    ELSE [Watcher_dispose(c, c.watchers[c.emitter[e].session])
            EXCEPT !.watchers[c.emitter[e].session] = 0]

\* Emitter: a listener is added ...
Emitter_add(c, e) ==
    IF c.emitter[e].listeners = 0
    THEN onFirstListenerAdd([c EXCEPT !.emitter[e].listeners = 1, !.out = NoOutcome], e)
    ELSE [c EXCEPT !.emitter[e].listeners = @ + 1, !.out = NoOutcome]

\* ... or removed.
Emitter_remove(c, e) ==
    IF c.emitter[e].listeners = 1
    THEN onLastListenerRemove([c EXCEPT !.emitter[e].listeners = 0, !.out = NoOutcome], e)
    ELSE [c EXCEPT !.emitter[e].listeners = @ - 1, !.out = NoOutcome]

RECURSIVE disposeWatchers(_, _)

disposeWatchers(c, xs) ==
    IF xs = {} THEN c
    ELSE disposeWatchers(Watcher_dispose(c, CHOOSE x \in xs : TRUE),
                         xs \ {CHOOSE x \in xs : TRUE})

\* FileProviderChannel.dispose: every watcher in the map is disposed, the map cleared.
FileProviderChannel_dispose(c) ==
    [disposeWatchers(c, {c.watchers[x] : x \in FileSessions} \ {0})
        EXCEPT !.watchers = [x \in FileSessions |-> 0], !.out = NoOutcome]

\* ---- TerminalProviderChannel
\* The methods and events of the pty service that findEventHandler and
\* findEvent look up by name.
PtyServiceMethods == {"$start", "$input", "$resize", "$shutdown"}

PtyServiceEvents == {"$onProcessDataEvent", "$onProcessExitEvent"}

findEventHandler(command) == command \in PtyServiceMethods

findEvent(eventName) == eventName \in PtyServiceEvents

\* sendCommandResult: the pending request is deleted and settled; an unknown
\* request id is logged.
\* reqData.resolve(result) or reqData.reject(result): the promise of request
\* reqId is settled if it is still pending.
settleRequest(c, reqId, isError) ==
    [c EXCEPT !.requests = [i \in DOMAIN c.requests |->
        IF c.requests[i].id # reqId THEN c.requests[i]
        ELSE [c.requests[i] EXCEPT
                 !.settleCalls = @ + 1,
                 !.state = IF @ # "pending" THEN @
                           ELSE IF isError THEN "rejected" ELSE "resolved"]]]

\* Mutant: the entry stays in the map after its result has arrived.
sendCommandResult_keepsEntry(c, reqId, isError) ==
    IF reqId \notin c.pendingRequests
    THEN Outcome([c EXCEPT !.result = [reqId |-> reqId, isError |-> isError]],
                 "terminal", "call", "$sendCommandResult", "warn", "")
    ELSE Outcome(settleRequest([c EXCEPT !.result = [reqId |-> reqId, isError |-> isError]],
                               reqId, isError),
                 "terminal", "call", "$sendCommandResult", "value", "")

TerminalProviderChannel_sendCommandResult(c, reqId, isError) ==
    IF reqId \notin c.pendingRequests
    THEN Outcome([c EXCEPT !.result = [reqId |-> reqId, isError |-> isError]],
                 "terminal", "call", "$sendCommandResult", "warn", "")
    ELSE Outcome(settleRequest([c EXCEPT !.pendingRequests = @ \ {reqId},
                                         !.result = [reqId |-> reqId, isError |-> isError]],
                               reqId, isError),
                 "terminal", "call", "$sendCommandResult", "value", "")

TerminalProviderChannel_call(c, command, reqId, isError) ==
    IF command = "$createProcess"
    THEN Outcome(c, "terminal", "call", command, "value", "")
    ELSE IF command = "$sendCommandResult"
    THEN TerminalProviderChannel_sendCommandResult(c, reqId, isError)
    ELSE IF findEventHandler(command)
    THEN Outcome(c, "terminal", "call", command, "value", "")
    ELSE Outcome(c, "terminal", "call", command, "rejects", InvalidCall(command))

TerminalProviderChannel_listen(c, eventName) ==
    IF eventName = "$onExecuteCommand" \/ findEvent(eventName)
    THEN Outcome(c, "terminal", "listen", eventName, "event", "")
    ELSE Outcome(c, "terminal", "listen", eventName, "none", "")

\* executeCommand: reqId = ++this._lastRequestId and the pending entry ...
executeCommand_register(c) ==
    [c EXCEPT !.lastRequestId = @ + 1,
              !.pendingRequests = @ \cup {c.lastRequestId + 1},
              !.requests = Append(@, [id |-> c.lastRequestId + 1, state |-> "pending",
                                      settleCalls |-> 0, fired |-> 0,
                                      pendingAtFire |-> FALSE])]

\* ... then this._onExecuteCommand.fire({reqId, ...}).
executeCommand_fire(c, reqId) ==
    [c EXCEPT !.requests = [i \in DOMAIN c.requests |->
                 IF c.requests[i].id # reqId THEN c.requests[i]
                 ELSE [c.requests[i] EXCEPT !.fired = @ + 1,
                                            !.pendingAtFire = reqId \in c.pendingRequests]],
              !.out = NoOutcome]

TerminalProviderChannel_executeCommand(c) ==
    executeCommand_fire(executeCommand_register(c), c.lastRequestId + 1)

\* dispose: this._pendingRequests.clear().
TerminalProviderChannel_dispose(c) ==
    Outcome([c EXCEPT !.pendingRequests = {}], "terminal", "dispose", "", "value", "")

\* ---- TerminalProviderChannel, the earlier version
EarlierTerminalEvents ==
    {"$onPtyHostExitEvent", "$onPtyHostStartEvent", "$onPtyHostUnresponsiveEvent",
     "$onPtyHostResponsiveEvent", "$onPtyHostRequestResolveVariablesEvent",
     "$onProcessDataEvent", "$onProcessExitEvent", "$onProcessReadyEvent",
     "$onProcessReplayEvent", "$onProcessTitleChangedEvent",
     "$onProcessShellTypeChangedEvent", "$onProcessOverrideDimensionsEvent",
     "$onProcessResolvedShellLaunchConfigEvent", "$onProcessOrphanQuestion",
     "$onDidRequestDetach", "$onProcessDidChangeHasChildProcesses"}

EarlierTerminal_listen(c, event) ==
    IF event \in EarlierTerminalEvents
    THEN Outcome(c, "terminalEarlier", "listen", event, "event", "")
    ELSE IF event = "$onExecuteCommand"
    THEN Outcome(c, "terminalEarlier", "listen", event, "none", "")
    ELSE Outcome(c, "terminalEarlier", "listen", event, "throws", InvalidListen(event))

\* ---- ExtensionEnvironmentChannel
ExtensionEnvironmentChannel_listen(c, event) ==
    Outcome(c, "environment", "listen", event, "throws", InvalidListen(event))

ExtensionEnvironmentChannel_call(c, command) ==
    IF command \in {"getEnvironmentData", "scanExtensions", "logTelemetry", "flushTelemetry"}
    THEN Outcome(c, "environment", "call", command, "value", "")
    ELSE IF command = "getDiagnosticInfo"
    THEN Outcome(c, "environment", "call", command, "rejects", "not implemented")
    ELSE IF command = "disableTelemetry"
    THEN Outcome([c EXCEPT !.telemetryEnabled = FALSE],
                 "environment", "call", command, "value", "")
    ELSE Outcome(c, "environment", "call", command, "rejects", InvalidCall(command))

\* ------------------------------------------- ServerSocket / ServerWebSocket
\* One ServerSocket wrapping one WebSocket.  events: what the listeners of
\* onError and onClose have observed, in order.  wsSent: the calls of ws.send.
\* closeEvent, closeCalled, step: what has happened to the adapter so far.
MaxErrors == 2         \* error events the WebSocket emits
MaxWrites == 2         \* ServerSocket.write calls
MaxCloseCalls == 2     \* close()/end()/dispose() calls

NoError == [name |-> "", n |-> 0, message |-> ""]

NoStep == [op |-> "", err |-> NoError, wasClean |-> FALSE]

NoWebSocket ==
    [isClosed |-> FALSE, pendingErrorEvent |-> NoError, scheduled |-> FALSE,
     listening |-> TRUE, disposed |-> FALSE,
     wsSent |-> 0, wsCloseCalls |-> 0, writes |-> 0, dropped |-> 0,
     errors |-> 0, emittedClose |-> FALSE, closeEvent |-> FALSE, closeCalled |-> FALSE,
     events |-> <<>>, step |-> NoStep]

\* An emitter registered with the Disposable has no listeners once disposed.
fireOnError(x, err) ==
    IF x.disposed THEN x
    ELSE [x EXCEPT !.events = Append(@, [kind |-> "error", err |-> err])]

fireOnClose(x, wasClean) ==
    IF x.disposed THEN x
    ELSE [x EXCEPT !.events = Append(@, [kind |-> "close",
                                         err |-> [NoError EXCEPT !.name =
                                                    IF wasClean THEN "clean" ELSE "unclean"]])]

\* Mutant: the pending error stays pending after it has been fired.
sendPendingErrorNow_keeps(x) == fireOnError(x, x.pendingErrorEvent)

sendPendingErrorNow(x) ==
    fireOnError([x EXCEPT !.pendingErrorEvent = NoError], x.pendingErrorEvent)

errorRunner_cancel(x) == [x EXCEPT !.scheduled = FALSE]

errorRunner_schedule(x) == [x EXCEPT !.scheduled = TRUE]

sendErrorSoon(x, err) ==
    errorRunner_schedule([errorRunner_cancel(x) EXCEPT !.pendingErrorEvent = err])

sendErrorNow(x, err) ==
    sendPendingErrorNow([errorRunner_cancel(x) EXCEPT !.pendingErrorEvent = err])

\* new RemoteAuthorityResolverError(e.reason || `WebSocket close with status
\* code ${e.code}`, TemporarilyNotAvailable, e).
TemporarilyNotAvailable(reason, code) ==
    [name |-> "TemporarilyNotAvailable", n |-> 0,
     message |-> IF reason # "" THEN reason
                 ELSE "WebSocket close with status code " \o code]

onWebSocketClose_error(x, wasClean, reason, code) ==
    IF x.pendingErrorEvent = NoError THEN x
    ELSE IF ~wasClean THEN sendErrorNow(x, TemporarilyNotAvailable(reason, code))
    ELSE sendPendingErrorNow(errorRunner_cancel(x))

\* The listener of the WebSocket's close event.
onWebSocketClose(x, wasClean, reason, code) ==
    fireOnClose(onWebSocketClose_error([x EXCEPT !.isClosed = TRUE], wasClean, reason, code),
                wasClean)

ServerWebSocket_send(x) ==
    IF x.isClosed THEN [x EXCEPT !.dropped = @ + 1]
    ELSE [x EXCEPT !.wsSent = @ + 1]

\* Mutant: close() does not mark the adapter closed.
ServerWebSocket_close_unmarked(x) ==
    [x EXCEPT !.wsCloseCalls = @ + 1, !.listening = FALSE,
              !.disposed = TRUE, !.scheduled = FALSE]

\* close(): ws.close(), ws.removeAllListeners(), this.dispose() (which
\* disposes the two emitters and the error runner).
ServerWebSocket_close(x) ==
    [x EXCEPT !.isClosed = TRUE, !.wsCloseCalls = @ + 1, !.listening = FALSE,
              !.disposed = TRUE, !.scheduled = FALSE]

ServerSocket_write(x) == ServerWebSocket_send(x)

ServerSocket_end(x) == ServerWebSocket_close(x)

ServerSocket_dispose(x) == ServerWebSocket_close(x)

\* ------------------------- the callback store of the incoming request service
\* callbackUriToRequestId with the timers of its entries.  entries: every
\* Callback object created so far, with its timer (armed, and the ticks
\* elapsed since it was set); map[requestId]: the entry stored under the id.
MaxCallbacks == 3      \* /callback requests in one behaviour
GraceTicks == 2        \* ProtocolConstants.ReconnectionShortGraceTime, in clock ticks

RequestIds == {"a", "b"}

CallbackUris == {"code-oss://x", "code-oss://y"}

NoResponse == [status |-> 0, body |-> ""]

NoCallbacks ==
    [map |-> [r \in RequestIds |-> 0], entries |-> <<>>, disposed |-> FALSE,
     response |-> NoResponse, step |-> ""]

Respond(c, status, body) == [c EXCEPT !.response = [status |-> status, body |-> body]]

\* $callback: a new Callback with its own timer is stored under requestId.
callback(c, requestId, uri) ==
    IF requestId = "" THEN Respond(c, 400, "Bad request.")
    ELSE Respond([c EXCEPT !.entries = Append(@, [requestId |-> requestId, uri |-> uri,
                                                  armed |-> TRUE, elapsed |-> 0,
                                                  fetched |-> FALSE]),
                           !.map[requestId] = Len(c.entries) + 1],
                 200, "callback")

\* Mutant: the entry stays in the map after it has been fetched.
fetchCallback_keeps(c, requestId) ==
    IF requestId = "" THEN Respond(c, 400, "Bad request.")
    ELSE IF c.map[requestId] = 0 THEN Respond(c, 200, "undefined")
    ELSE Respond([c EXCEPT !.entries[c.map[requestId]].armed = FALSE,
                           !.entries[c.map[requestId]].fetched = TRUE],
                 200, c.entries[c.map[requestId]].uri)

\* $fetchCallback.
fetchCallback(c, requestId) ==
    IF requestId = "" THEN Respond(c, 400, "Bad request.")
    ELSE IF c.map[requestId] = 0 THEN Respond(c, 200, "undefined")
    ELSE Respond([c EXCEPT !.map[requestId] = 0,
                           !.entries[c.map[requestId]].armed = FALSE,
                           !.entries[c.map[requestId]].fetched = TRUE],
                 200, c.entries[c.map[requestId]].uri)

\* The timer callback of entry i: () => this.callbackUriToRequestId.delete(requestId).
callback_timeout(c, i) ==
    [c EXCEPT !.map[c.entries[i].requestId] = 0, !.entries[i].armed = FALSE]

\* dispose: clearTimeout for the entries in the map, then map.clear().
IncomingRequestService_dispose(c) ==
    [c EXCEPT !.entries = [i \in DOMAIN c.entries |->
                             IF c.map[c.entries[i].requestId] = i
                             THEN [c.entries[i] EXCEPT !.armed = FALSE]
                             ELSE c.entries[i]],
              !.map = [r \in RequestIds |-> 0],
              !.disposed = TRUE]

\* What `last` records of a handler run on session s: its name, the protocol it
\* was given, whether it threw, and the session's fields as it found them.
Pre(s) == [offline |-> conn[s].offline, disposed |-> conn[s].disposed,
           protocol |-> conn[s].protocol]

NoPre == [offline |-> 0, disposed |-> FALSE, protocol |-> 0]

Handler(name, s, p, w) ==
    [op |-> name, s |-> s, p |-> p, threw |-> w.threw, pre |-> Pre(s)]

Event(name, s) == [op |-> name, s |-> s, p |-> 0, threw |-> FALSE, pre |-> NoPre]

Init ==
    /\ conn = [s \in Sessions |-> NoConn]
    /\ proto = <<>>
    /\ sock = <<>>
    /\ pending = [s \in Sessions |-> 0]
    /\ recv = [s \in Sessions |-> 0]
    /\ now = 1
    /\ last = Event("init", 0)
    /\ ops = <<>>
    /\ hs = NoHandshake
    /\ chan = NoChannels
    /\ wsock = NoWebSocket
    /\ store = NoCallbacks

\* The server accepts a socket for session s and wraps it in a ServerProtocol.
Accept(s) ==
    /\ pending[s] = 0
    /\ Len(proto) < MaxProtocols
    /\ LET k == Len(proto) + 1
       IN  /\ proto' = Append(proto, NewProtocol(k))
           /\ sock' = Append(sock, NewSocket)
           /\ pending' = [pending EXCEPT ![s] = k]
    /\ last' = Event("accept", s)
    /\ ops' = <<>>
    /\ UNCHANGED <<conn, recv, now, hs, chan, wsock, store>>

\* The socket the client of session s writes to: the one accepted last.
CurrentSocket(s) ==
    IF pending[s] # 0 THEN proto[pending[s]].socket
    ELSE IF conn[s].protocol # 0 THEN proto[conn[s].protocol].socket
    ELSE 0

\* The live protocol objects that listen on socket k.
Attached(k) == {p \in DOMAIN proto : proto[p].socket = k /\ ~proto[p].disposed}

\* The next byte of session s's stream arrives on its socket.  Every protocol
\* object listening on the socket reads it; a socket paused in this process and
\* sent to the child process is read by the child.
SocketData(s) ==
    /\ recv[s] < MaxBytes
    /\ LET k == CurrentSocket(s)
       IN  /\ k # 0
           /\ ~sock[k].closed
           /\ IF sock[k].paused
              THEN /\ conn[s].childSocket = k
                   /\ conn[s].clientProcess = "running"
                   /\ conn' = [conn EXCEPT ![s].delivered = Append(@, recv[s] + 1),
                                            ![s].childGot = Append(@, recv[s] + 1)]
                   /\ UNCHANGED proto
              ELSE /\ Attached(k) # {}
                   /\ proto' = [p \in DOMAIN proto |->
                                  IF p \in Attached(k)
                                  THEN [proto[p] EXCEPT !.incoming = Append(@, recv[s] + 1)]
                                  ELSE proto[p]]
                   /\ UNCHANGED conn
    /\ recv' = [recv EXCEPT ![s] = @ + 1]
    /\ last' = Event("data", s)
    /\ ops' = <<>>
    /\ UNCHANGED <<sock, pending, now, hs, chan, wsock, store>>

\* The session's protocol hands the next buffered byte to the IPC server.
Deliver(s) ==
    /\ conn[s].kind = "management"
    /\ LET p == conn[s].protocol
       IN  /\ ~proto[p].disposed /\ ~proto[p].reconnecting
           /\ proto[p].incoming # <<>>
           /\ conn' = [conn EXCEPT ![s].delivered = Append(@, Head(proto[p].incoming))]
           /\ proto' = [proto EXCEPT ![p].incoming = Tail(@)]
    /\ last' = Event("deliver", s)
    /\ ops' = <<>>
    /\ UNCHANGED <<sock, pending, recv, now, hs, chan, wsock, store>>

\* new ManagementConnection(protocol) for a first connection.
NewManagementConnection(s) ==
    /\ conn[s].kind = "none"
    /\ pending[s] # 0
    /\ LET w == ManagementConnection_new(World, s, pending[s])
       IN  Commit(w) /\ last' = Handler("newManagement", s, pending[s], w)
    /\ pending' = [pending EXCEPT ![s] = 0]
    /\ UNCHANGED <<recv, now, hs, chan, wsock, store>>

\* new ExtensionHostConnection(protocol, ...) for a first connection.
NewExtensionHostConnection(s) ==
    /\ conn[s].kind = "none"
    /\ pending[s] # 0
    /\ LET w == ExtensionHostConnection_new(World, s, pending[s])
       IN  Commit(w) /\ last' = Handler("newExtensionHost", s, pending[s], w)
    /\ pending' = [pending EXCEPT ![s] = 0]
    /\ UNCHANGED <<recv, now, hs, chan, wsock, store>>

\* connection.start(): runs to the await of generateClientOptions().
Start(s) ==
    /\ conn[s].kind = "exthost"
    /\ conn[s].startPc = "idle"
    /\ LET w == ExtensionHostConnection_start(World, s)
       IN  Commit(w) /\ last' = Handler("start", s, conn[s].protocol, w)
    /\ UNCHANGED <<pending, recv, now, hs, chan, wsock, store>>

\* generateClientOptions() settles and start() goes on, or its executor throws.
StartSpawn(s) ==
    /\ conn[s].kind = "exthost"
    /\ conn[s].startPc = "generating"
    /\ \E optionsOk \in BOOLEAN :
          LET w == ExtensionHostConnection_spawn(World, s, optionsOk)
          IN  Commit(w) /\ last' = Handler("spawn", s, conn[s].protocol, w)
    /\ UNCHANGED <<pending, recv, now, hs, chan, wsock, store>>

\* The child process reports ready.
ChildReady(s) ==
    /\ conn[s].clientProcess = "running"
    /\ ~conn[s].ready
    /\ \E ok \in BOOLEAN :
          LET w == ExtensionHostConnection_onReady([World EXCEPT !.ipcOk = ok], s)
          IN  Commit(w) /\ last' = Handler("ready", s, conn[s].protocol, w)
    /\ UNCHANGED <<pending, recv, now, hs, chan, wsock, store>>

ExitCodes == {0, 1}

ExitSignals == {"null", "SIGTERM"}

\* The child process exits: onDidProcessExit.
ChildExit(s) ==
    /\ conn[s].clientProcess \in {"running", "disposed"}
    /\ \E code \in ExitCodes, signal \in ExitSignals :
          LET w0 == [World EXCEPT !.conn[s].clientProcess = "exited"]
              w == onExtHostProcessExit(w0, s, code, signal)
          IN  Commit(w) /\ last' = Handler("exit", s, conn[s].protocol, w)
    /\ UNCHANGED <<pending, recv, now, hs, chan, wsock, store>>

\* The child reports VSCODE_EXTHOST_DISCONNECTED (the earlier
\* ExtensionHostConnection's message handler): setOffline.
ChildDisconnected(s) ==
    /\ conn[s].kind = "exthost"
    /\ conn[s].clientProcess = "running"
    /\ \E t \in now..MaxTime :
          LET w == setOffline(Log(World, Op("setOffline", conn[s].protocol, 0, "", <<>>)), s, t)
          IN  Commit(w) /\ last' = Handler("disconnected", s, conn[s].protocol, w) /\ now' = t
    /\ UNCHANGED <<pending, recv, hs, chan, wsock, store>>

\* connection.terminate().
Terminate(s) ==
    /\ conn[s].kind = "exthost"
    /\ conn[s].terminatePc = "idle"
    /\ LET w == terminate(World, s)
       IN  Commit(w) /\ last' = Handler("terminate", s, conn[s].protocol, w)
    /\ UNCHANGED <<pending, recv, now, hs, chan, wsock, store>>

\* The start() promise has settled and terminate's continuation runs.
TerminateSettled(s) ==
    /\ conn[s].terminatePc = "waiting"
    /\ conn[s].startPc \in {"resolved", "rejected"}
    /\ LET w == IF conn[s].startPc = "resolved"
                THEN terminate_onResolved(World, s)
                ELSE terminate_onRejected(World, s)
       IN  Commit(w) /\ last' = Handler("terminateSettled", s, conn[s].protocol, w)
    /\ UNCHANGED <<pending, recv, now, hs, chan, wsock, store>>

\* The timer of terminate's continuation fires.
TerminateTimeout(s) ==
    /\ conn[s].terminatePc = "timer"
    /\ LET w == terminate_onTimeout(World, s)
       IN  Commit(w) /\ last' = Handler("terminateTimeout", s, conn[s].protocol, w)
    /\ UNCHANGED <<pending, recv, now, hs, chan, wsock, store>>

\* The close event of the socket under session s's protocol: onSocketClose.
SocketClose(s) ==
    /\ conn[s].kind = "management"
    /\ LET p == conn[s].protocol
           k == proto[p].socket
       IN  /\ ~proto[p].disposed
           /\ ~sock[k].closed
           /\ \E t \in now..MaxTime :
                 LET w0 == [World EXCEPT !.sock[k].closed = TRUE]
                     w == setOffline(Log(w0, Op("setOffline", p, k, "", <<>>)), s, t)
                 IN  Commit(w) /\ last' = Handler("socketClose", s, p, w) /\ now' = t
    /\ UNCHANGED <<pending, recv, hs, chan, wsock, store>>

\* connection.reconnect(protocol) with the protocol of a newly accepted socket.
Reconnect(s) ==
    /\ conn[s].kind # "none"
    /\ pending[s] # 0
    /\ \E ok \in BOOLEAN :
          LET w == reconnect([World EXCEPT !.ipcOk = ok], s, pending[s])
          IN  Commit(w) /\ last' = Handler("reconnect", s, pending[s], w)
    /\ pending' = [pending EXCEPT ![s] = 0]
    /\ UNCHANGED <<recv, now, hs, chan, wsock, store>>

\* An explicit connection.dispose(reason).
Dispose(s) ==
    /\ conn[s].kind # "none"
    /\ \E re, sf \in BOOLEAN :
          LET w == dispose([World EXCEPT !.reenter = re, !.sendFails = sf], s)
          IN  Commit(w) /\ last' = Handler("dispose", s, 0, w)
    /\ UNCHANGED <<pending, recv, now, hs, chan, wsock, store>>

\* The protocol's dispose notification (the peer disconnected): onDidDispose.
ProtocolDidDispose(s) ==
    /\ conn[s].kind = "management"
    /\ ~proto[conn[s].protocol].disposed
    /\ \E re \in BOOLEAN :
          LET w == fireOnDidDispose([World EXCEPT !.reenter = re], conn[s].protocol)
          IN  Commit(w) /\ last' = Handler("onDidDispose", s, conn[s].protocol, w)
    /\ UNCHANGED <<pending, recv, now, hs, chan, wsock, store>>

Next ==
    \E s \in Sessions :
          \/ Accept(s)
          \/ SocketData(s)
          \/ Deliver(s)
          \/ NewManagementConnection(s)
          \/ NewExtensionHostConnection(s)
          \/ Start(s)
          \/ StartSpawn(s)
          \/ ChildReady(s)
          \/ ChildExit(s)
          \/ ChildDisconnected(s)
          \/ Terminate(s)
          \/ TerminateSettled(s)
          \/ TerminateTimeout(s)
          \/ SocketClose(s)
          \/ Reconnect(s)
          \/ Dispose(s)
          \/ ProtocolDidDispose(s)

Spec == Init /\ [][Next]_vars

SessionVars == <<conn, proto, sock, pending, recv, now, last, ops>>

\* The socket of the handshake is accepted and wrapped in ServerProtocol 1.
HandshakeAccept ==
    /\ proto = <<>>
    /\ proto' = <<NewProtocol(1)>>
    /\ sock' = <<NewSocket>>
    /\ pending' = [pending EXCEPT ![1] = 1]
    /\ last' = Event("accept", 1)
    /\ ops' = <<>>
    /\ UNCHANGED <<conn, recv, now, hs, chan, wsock, store>>

\* The caller's handling of a rejected handshake: the protocol is destroyed
\* with the error as reason and no session is made.
onHandshakeFailed(w, p, error) == destroy(w, p, error)

\* The rejection reaches the caller of handshake().
HandshakeRejectedThen ==
    /\ hs.promise = "rejected"
    /\ pending[1] # 0
    /\ \E sf \in BOOLEAN :
          LET w == onHandshakeFailed([World EXCEPT !.sendFails = sf], pending[1], hs.error)
          IN  Commit(w) /\ last' = Handler("handshakeFailed", 1, pending[1], w)
    /\ pending' = [pending EXCEPT ![1] = 0]
    /\ UNCHANGED <<recv, now, hs, chan, wsock, store>>

\* The connection request reaches the caller of handshake(), which makes the
\* session the request names; tunnel() throws, which ends like a failure.
HandshakeResolvedThen ==
    /\ hs.promise = "resolved"
    /\ pending[1] # 0
    /\ \/ hs.value.desiredConnectionType = "Management" /\ NewManagementConnection(1)
       \/ hs.value.desiredConnectionType = "ExtensionHost" /\ NewExtensionHostConnection(1)
       \/ /\ hs.value.desiredConnectionType = "Tunnel"
          /\ LET w == onHandshakeFailed(World, pending[1], "Tunnel is not implemented yet")
             IN  Commit(w) /\ last' = Handler("handshakeFailed", 1, pending[1], w)
          /\ pending' = [pending EXCEPT ![1] = 0]
          /\ UNCHANGED <<recv, now, hs, chan, wsock, store>>

\* The connection handler calls protocol.handshake().
HandshakeCall ==
    /\ hs.promise = "none"
    /\ proto # <<>>
    /\ hs' = handshake([hs EXCEPT !.event = HandshakeEvent("call", NoValue)])
    /\ UNCHANGED <<SessionVars, chan, wsock, store>>

\* A control message arrives; it reaches the handler while that is registered.
ControlMessageArrived ==
    /\ proto # <<>>
    /\ ~sock[1].closed
    /\ hs.arrived < MaxControlMessages
    /\ \E raw \in RawMessages :
          LET h == Late([hs EXCEPT !.arrived = @ + 1,
                                   !.event = HandshakeEvent("message", raw),
                                   !.enqueued = Append(@, "control")])
              st == receive([h |-> h, incoming |-> <<>>, recv |-> 0],
                            <<ControlFrame(raw)>>)
          IN  hs' = st.h
    /\ UNCHANGED <<SessionVars, chan, wsock, store>>

\* The writes that carry a payload message: alone, behind a control message
\* or ahead of one.
PayloadWrites ==
    {<<PayloadFrame>>}
    \cup {<<ControlFrame(raw), PayloadFrame>> : raw \in RawMessages}
    \cup {<<PayloadFrame, ControlFrame(raw)>> : raw \in RawMessages}

\* One socket write with a payload message in it arrives.
PayloadArrived ==
    /\ proto # <<>>
    /\ ~sock[1].closed
    /\ ~proto[1].disposed
    /\ recv[1] < MaxBytes
    /\ \E frames \in PayloadWrites :
          /\ Len(frames) = 2 => hs.arrived < MaxControlMessages
          /\ LET h == Late([hs EXCEPT !.arrived = @ + Len(frames) - 1,
                                      !.event = HandshakeEvent("write", NoValue),
                                      !.enqueued = @ \o [i \in DOMAIN frames |->
                                                           FrameKind(frames[i])]])
                 st == receive([h |-> h, incoming |-> proto[1].incoming,
                                recv |-> recv[1]], frames)
             IN  /\ hs' = st.h
                 /\ proto' = [proto EXCEPT ![1].incoming = st.incoming]
                 /\ recv' = [recv EXCEPT ![1] = st.recv]
    /\ last' = Event("data", 1)
    /\ ops' = <<>>
    /\ UNCHANGED <<conn, sock, pending, now, chan, wsock, store>>

\* HANDSHAKE_TIMEOUT_DURATION ms have passed since handshake() was called; the
\* callback runs if the timer is still armed.
HandshakeTimerDue ==
    /\ hs.promise # "none"
    /\ hs.elapsed = 0
    /\ LET h == Late([hs EXCEPT !.elapsed = HANDSHAKE_TIMEOUT_DURATION,
                                !.event = HandshakeEvent("timer", NoValue)])
       IN  hs' = IF hs.timeout THEN handshake_timeout(h) ELSE h
    /\ UNCHANGED <<SessionVars, chan, wsock, store>>

\* The socket closes; the listener runs if it is still registered.
HandshakeSocketClosed ==
    /\ proto # <<>>
    /\ ~sock[1].closed
    /\ conn[1].kind = "none"
    /\ LET h == Late([hs EXCEPT !.socketClosed = TRUE,
                                !.event = HandshakeEvent("close", NoValue)])
       IN  hs' = IF hs.onClose THEN handshake_onClose(h) ELSE h
    /\ sock' = [sock EXCEPT ![1].closed = TRUE]
    /\ UNCHANGED <<conn, proto, pending, recv, now, last, ops, chan, wsock, store>>

HandshakeNext ==
    \/ HandshakeAccept
    \/ PayloadArrived
    \/ Deliver(1)
    \/ HandshakeRejectedThen
    \/ HandshakeResolvedThen
    \/ Dispose(1)
    \/ HandshakeCall
    \/ ControlMessageArrived
    \/ HandshakeTimerDue
    \/ HandshakeSocketClosed

SpecHandshake == Init /\ [][HandshakeNext]_vars

\* ------------------------- the earlier ExtensionHostConnection as a session
\* new ExtensionHostConnection(protocol, ...): the constructor starts the spawn.
NewEarlierExtensionHostConnection(s) ==
    /\ conn[s].kind = "none"
    /\ pending[s] # 0
    /\ LET w == Earlier_new(World, s, pending[s])
       IN  Commit(w) /\ last' = Handler("newExtensionHost", s, pending[s], w)
    /\ pending' = [pending EXCEPT ![s] = 0]
    /\ UNCHANGED <<recv, now, hs, chan, wsock, store>>

\* getNlsConfiguration() settles: the child is forked and kept in this.process.
EarlierSpawned(s) ==
    /\ conn[s].kind = "exthostEarlier"
    /\ conn[s].startPc = "generating"
    /\ LET w == Earlier_spawn(World, s)
       IN  Commit(w) /\ last' = Handler("spawn", s, conn[s].protocol, w)
    /\ UNCHANGED <<pending, recv, now, hs, chan, wsock, store>>

\* The child's VSCODE_EXTHOST_IPC_READY message.
EarlierReady(s) ==
    /\ conn[s].kind = "exthostEarlier"
    /\ conn[s].clientProcess = "running"
    /\ ~conn[s].ready
    /\ \E ok \in BOOLEAN :
          LET w == Earlier_onReady([World EXCEPT !.ipcOk = ok], s)
          IN  Commit(w) /\ last' = Handler("ready", s, conn[s].protocol, w)
    /\ UNCHANGED <<pending, recv, now, hs, chan, wsock, store>>

\* The child's 'exit' event: this.dispose().
EarlierExit(s) ==
    /\ conn[s].kind = "exthostEarlier"
    /\ conn[s].clientProcess \in {"running", "disposed"}
    /\ LET w == dispose([World EXCEPT !.conn[s].clientProcess = "exited"], s)
       IN  Commit(w) /\ last' = Handler("exit", s, conn[s].protocol, w)
    /\ UNCHANGED <<pending, recv, now, hs, chan, wsock, store>>

\* The child was sent a socket that this process still reads: the next byte
\* goes to whichever process reads first; SocketData is the parent's read,
\* this is the child's.
EarlierChildReads(s) ==
    /\ conn[s].kind = "exthostEarlier"
    /\ recv[s] < MaxBytes
    /\ conn[s].clientProcess = "running"
    /\ LET k == CurrentSocket(s)
       IN  /\ k # 0
           /\ conn[s].childSocket = k
           /\ ~sock[k].closed
           /\ ~sock[k].paused
    /\ conn' = [conn EXCEPT ![s].childGot = Append(@, recv[s] + 1)]
    /\ recv' = [recv EXCEPT ![s] = @ + 1]
    /\ last' = Event("data", s)
    /\ ops' = <<>>
    /\ UNCHANGED <<proto, sock, pending, now, hs, chan, wsock, store>>

EarlierNext ==
    \E s \in Sessions :
          \/ Accept(s)
          \/ SocketData(s)
          \/ NewEarlierExtensionHostConnection(s)
          \/ EarlierSpawned(s)
          \/ EarlierReady(s)
          \/ EarlierExit(s)
          \/ EarlierChildReads(s)
          \/ Reconnect(s)
          \/ Dispose(s)

SpecEarlier == Init /\ [][EarlierNext]_vars

\* ------------------------------------- the extension-host session on its own
\* connection.terminate() called again: the guard on _terminating returns.
TerminateAgain(s) ==
    /\ conn[s].kind = "exthost"
    /\ conn[s].terminatePc # "idle"
    /\ LET w == terminate(World, s)
       IN  Commit(w) /\ last' = Handler("terminate", s, conn[s].protocol, w)
    /\ UNCHANGED <<pending, recv, now, hs, chan, wsock, store>>

ExtHostNext ==
    \E s \in Sessions :
          \/ Accept(s)
          \/ SocketData(s)
          \/ NewExtensionHostConnection(s)
          \/ Start(s)
          \/ StartSpawn(s)
          \/ ChildReady(s)
          \/ ChildExit(s)
          \/ Terminate(s)
          \/ TerminateAgain(s)
          \/ TerminateSettled(s)
          \/ TerminateTimeout(s)
          \/ Reconnect(s)
          \/ Dispose(s)

SpecExtHost == Init /\ [][ExtHostNext]_vars

\* What the scheduling guarantees: a pending continuation runs (the await in
\* start() resumes, the child reports ready, the continuation and the timer of
\* terminate() run), and a child process that has been told to stop exits.
\* Nothing guarantees that a running child exits of its own accord.
ExtHostFairness ==
    \A s \in Sessions :
        /\ WF_vars(StartSpawn(s))
        /\ WF_vars(ChildReady(s))
        /\ WF_vars(TerminateSettled(s))
        /\ WF_vars(TerminateTimeout(s))
        /\ WF_vars(conn[s].clientProcess = "disposed" /\ ChildExit(s))

SpecExtHostFair == SpecExtHost /\ ExtHostFairness

\* ------------------------------------------------- the IPC channels at work
\* The name a channel handler is registered under.
ChannelName(ch) ==
    CASE ch = "file" -> "REMOTE_FILE_SYSTEM_CHANNEL_NAME"
      [] ch \in {"terminal", "terminalEarlier"} -> "REMOTE_TERMINAL_CHANNEL_NAME"
      [] ch = "environment" -> "remoteextensionsenvironment"

\* The IPC server routes a client's request to the handler registered under
\* the channel name of the request.
Routed(ch) ==
    /\ ~chan.fatal
    /\ \E i \in DOMAIN chan.registry : chan.registry[i] = ChannelName(ch)

CallNames ==
    {"stat", "watch", "$sendCommandResult", "$resize",
     "disableTelemetry", "getDiagnosticInfo", "bogus"}

ListenNames ==
    {"filechange", "readFileStream", "$onExecuteCommand", "$onProcessDataEvent", "bogus"}

\* Startup: ServerProcessMain.initChannels.
InitChannelsStartup ==
    /\ chan.registry = <<>>
    /\ ~chan.fatal
    /\ chan' = initChannels(chan)
    /\ UNCHANGED <<SessionVars, hs, wsock, store>>

\* Startup code registers one more channel after initChannels.
RegisterChannel ==
    /\ chan.registry # <<>>
    /\ ~chan.fatal
    /\ \E channelName \in {"logger", "custom"} :
          chan' = registerChannel(Outcome(chan, channelName, "registerChannel", "", "", ""),
                                  channelName)
    /\ UNCHANGED <<SessionVars, hs, wsock, store>>

\* A client's call(context, command, args) on a channel.
ChannelCall(handlers, commands, reqs) ==
    /\ \E ch \in handlers, command \in commands,
          session \in FileSessions, req \in reqs, isError \in BOOLEAN :
          /\ Routed(ch)
          /\ ch = "file" /\ command = "watch" => Len(chan.disposables) < MaxWatches
          /\ chan' = CASE ch = "file" -> FileProviderChannel_call(chan, command, session, req)
                       [] ch = "terminal" -> TerminalProviderChannel_call(chan, command, req, isError)
                       [] ch = "environment" -> ExtensionEnvironmentChannel_call(chan, command)
    /\ UNCHANGED <<SessionVars, hs, wsock, store>>

\* A client's listen(context, event, args) on a channel.
ChannelListen(handlers, events) ==
    /\ \E ch \in handlers, event \in events, session \in FileSessions :
          /\ Routed(ch)
          /\ ch = "file" /\ event = "filechange" => Len(chan.emitter) < MaxEmitters
          /\ chan' = CASE ch = "file" -> FileProviderChannel_listen(chan, event, session)
                       [] ch = "terminal" -> TerminalProviderChannel_listen(chan, event)
                       [] ch = "terminalEarlier" -> EarlierTerminal_listen(chan, event)
                       [] ch = "environment" -> ExtensionEnvironmentChannel_listen(chan, event)
    /\ UNCHANGED <<SessionVars, hs, wsock, store>>

\* A listener subscribes to the event a listen('filechange') call returned.
EmitterAdd ==
    /\ ~chan.fatal
    /\ \E e \in DOMAIN chan.emitter :
          /\ chan.emitter[e].listeners < MaxListeners
          /\ chan.emitter[e].listeners = 0 => Len(chan.watcher) < MaxWatchers
          /\ chan' = Emitter_add(chan, e)
    /\ UNCHANGED <<SessionVars, hs, wsock, store>>

\* A listener of such an event is removed.
EmitterRemove ==
    /\ ~chan.fatal
    /\ \E e \in DOMAIN chan.emitter :
          /\ chan.emitter[e].listeners > 0
          /\ chan' = Emitter_remove(chan, e)
    /\ UNCHANGED <<SessionVars, hs, wsock, store>>

\* The file channel is disposed.
FileChannelDispose ==
    /\ Routed("file")
    /\ chan' = FileProviderChannel_dispose(chan)
    /\ UNCHANGED <<SessionVars, hs, wsock, store>>

\* The terminal's CLI server sends a command to the client.
ExecuteCommand ==
    /\ Routed("terminal")
    /\ chan.lastRequestId < MaxRequests
    /\ chan' = TerminalProviderChannel_executeCommand(chan)
    /\ UNCHANGED <<SessionVars, hs, wsock, store>>

ChannelHandlers == {"file", "terminal", "terminalEarlier", "environment"}

ChannelsNext ==
    \/ InitChannelsStartup
    \/ RegisterChannel
    \/ ChannelCall(ChannelHandlers \ {"terminalEarlier"}, CallNames, WatchRequests)
    \/ ChannelListen(ChannelHandlers, ListenNames)
    \/ ExecuteCommand

SpecChannels == Init /\ [][ChannelsNext]_vars

\* The file channel with the listeners of its filechange events.
WatchersNext ==
    \/ InitChannelsStartup
    \/ ChannelCall({"file"}, {"watch", "unwatch", "bogus"}, WatchRequests)
    \/ ChannelListen({"file"}, {"filechange", "bogus"})
    \/ EmitterAdd
    \/ EmitterRemove
    \/ FileChannelDispose

SpecWatchers == Init /\ [][WatchersNext]_vars

\* The terminal channel is disposed.
TerminalChannelDispose ==
    /\ Routed("terminal")
    /\ chan' = TerminalProviderChannel_dispose(chan)
    /\ UNCHANGED <<SessionVars, hs, wsock, store>>

\* The terminal channel with the commands it sends to the client.
TerminalNext ==
    \/ InitChannelsStartup
    \/ ExecuteCommand
    \/ ChannelCall({"terminal"}, {"$sendCommandResult", "$resize", "bogus"}, 1..MaxRequests)
    \/ TerminalChannelDispose

SpecTerminal == Init /\ [][TerminalNext]_vars

\* ------------------------------------------------ two sessions side by side
\* The server holds one connection object per session, each constructed with
\* the protocol of its own socket.
TwoSessions == {1, 2}

InitTwoSessions ==
    /\ conn = [s \in TwoSessions |-> NoConn]
    /\ proto = <<>>
    /\ sock = <<>>
    /\ pending = [s \in TwoSessions |-> 0]
    /\ recv = [s \in TwoSessions |-> 0]
    /\ now = 1
    /\ last = Event("init", 0)
    /\ ops = <<>>
    /\ hs = NoHandshake
    /\ chan = NoChannels
    /\ wsock = NoWebSocket
    /\ store = NoCallbacks

\* The handshake on the socket accepted for session s fails (a timeout, a
\* close, a bad message): the caller destroys that socket's protocol.
HandshakeFailed(s) ==
    /\ pending[s] # 0
    /\ \E sf \in BOOLEAN :
          LET w == onHandshakeFailed([World EXCEPT !.sendFails = sf], pending[s],
                                     "handshake failed")
          IN  Commit(w) /\ last' = Handler("handshakeFailed", s, pending[s], w)
    /\ pending' = [pending EXCEPT ![s] = 0]
    /\ UNCHANGED <<recv, now, hs, chan, wsock, store>>

TwoSessionsNext ==
    \E s \in TwoSessions :
          \/ Accept(s)
          \/ HandshakeFailed(s)
          \/ NewManagementConnection(s)
          \/ NewExtensionHostConnection(s)
          \/ Start(s)
          \/ StartSpawn(s)
          \/ ChildReady(s)
          \/ ChildExit(s)
          \/ SocketClose(s)
          \/ Reconnect(s)
          \/ Dispose(s)

SpecTwoSessions == InitTwoSessions /\ [][TwoSessionsNext]_vars

\* ------------------------------------------------- the wire socket adapter
\* The WebSocket emits an error event.
WebSocketError ==
    /\ wsock.errors < MaxErrors
    /\ ~wsock.emittedClose
    /\ LET err == [name |-> "error", n |-> wsock.errors + 1, message |-> ""]
           x == [wsock EXCEPT !.errors = @ + 1,
                              !.step = [NoStep EXCEPT !.op = "error", !.err = err]]
       IN  wsock' = IF wsock.listening THEN sendErrorSoon(x, err) ELSE x
    /\ UNCHANGED <<SessionVars, hs, chan, store>>

\* The error runner's timeout of 0 ms elapses.
ErrorRunnerFires ==
    /\ wsock.scheduled
    /\ wsock' = sendPendingErrorNow([wsock EXCEPT !.scheduled = FALSE,
                                                   !.step = [NoStep EXCEPT !.op = "runner"]])
    /\ UNCHANGED <<SessionVars, hs, chan, store>>

CloseReasons == {"", "gone"}

CloseCodes == {"1000", "1006"}

\* The WebSocket emits its close event.
WebSocketCloseEvent ==
    /\ ~wsock.emittedClose
    /\ \E wasClean \in BOOLEAN, reason \in CloseReasons, code \in CloseCodes :
          LET x == [wsock EXCEPT !.emittedClose = TRUE,
                                 !.closeEvent = wsock.listening,
                                 !.step = [NoStep EXCEPT !.op = "close", !.wasClean = wasClean,
                                             !.err = TemporarilyNotAvailable(reason, code)]]
          IN  wsock' = IF wsock.listening
                       THEN onWebSocketClose(x, wasClean, reason, code)
                       ELSE x
    /\ UNCHANGED <<SessionVars, hs, chan, store>>

\* socket.write(buffer).
Write ==
    /\ wsock.writes < MaxWrites
    /\ wsock' = ServerSocket_write([wsock EXCEPT !.writes = @ + 1,
                                                  !.step = [NoStep EXCEPT !.op = "write"]])
    /\ UNCHANGED <<SessionVars, hs, chan, store>>

\* socket.end() or socket.dispose().
CloseCalled ==
    /\ wsock.wsCloseCalls < MaxCloseCalls
    /\ \E m \in {"end", "dispose"} :
          LET x == [wsock EXCEPT !.closeCalled = TRUE, !.step = [NoStep EXCEPT !.op = m]]
          IN  wsock' = IF m = "end" THEN ServerSocket_end(x) ELSE ServerSocket_dispose(x)
    /\ UNCHANGED <<SessionVars, hs, chan, store>>

SocketNext ==
    \/ WebSocketError
    \/ ErrorRunnerFires
    \/ WebSocketCloseEvent
    \/ Write
    \/ CloseCalled

SpecSocket == Init /\ [][SocketNext]_vars

\* ------------------------------------------------------ the callback store
\* GET /callback with the request id and URI parts in the query.
CallbackRequest ==
    /\ ~store.disposed
    /\ Len(store.entries) < MaxCallbacks
    /\ \E requestId \in RequestIds \cup {""}, uri \in CallbackUris :
          store' = callback([store EXCEPT !.step = "callback"], requestId, uri)
    /\ UNCHANGED <<SessionVars, hs, chan, wsock>>

\* GET /fetch-callback.
FetchCallbackRequest ==
    /\ ~store.disposed
    /\ \E requestId \in RequestIds \cup {""} :
          store' = fetchCallback([store EXCEPT !.step = "fetch"], requestId)
    /\ UNCHANGED <<SessionVars, hs, chan, wsock>>

\* A timer whose delay has elapsed.
Due(i) == store.entries[i].armed /\ store.entries[i].elapsed >= GraceTicks

\* The clock advances by one tick; a due timer runs before it does.
StoreTick ==
    /\ store.entries # <<>>
    /\ \A i \in DOMAIN store.entries : ~Due(i)
    /\ \E i \in DOMAIN store.entries : store.entries[i].armed
    /\ store' = [store EXCEPT !.step = "tick",
                               !.entries = [i \in DOMAIN store.entries |->
                                              IF store.entries[i].armed
                                              THEN [store.entries[i] EXCEPT !.elapsed = @ + 1]
                                              ELSE store.entries[i]]]
    /\ UNCHANGED <<SessionVars, hs, chan, wsock>>

\* The timer of an entry fires.
CallbackTimeout ==
    /\ \E i \in DOMAIN store.entries :
          /\ Due(i)
          /\ store' = callback_timeout([store EXCEPT !.step = "timeout"], i)
    /\ UNCHANGED <<SessionVars, hs, chan, wsock>>

\* The service is disposed.
StoreDispose ==
    /\ ~store.disposed
    /\ store' = IncomingRequestService_dispose([store EXCEPT !.step = "dispose"])
    /\ UNCHANGED <<SessionVars, hs, chan, wsock>>

CallbacksNext ==
    \/ CallbackRequest
    \/ FetchCallbackRequest
    \/ StoreTick
    \/ CallbackTimeout
    \/ StoreDispose

SpecCallbacks == Init /\ [][CallbacksNext]_vars

\* ---------------------------------------------------------------- properties
HasOp(name) == \E i \in DOMAIN ops : ops[i].op = name

Calls(names) == SelectSeq(ops, LAMBDA e : e.op \in names)

\* The handlers that call dispose() on their session.
DisposeCallers == {"dispose", "onDidDispose", "exit", "terminate"}

\* C1: however often dispose() is called on a session, and also when it is
\* called again from inside doDispose (the protocol's onDidDispose listener),
\* doDispose has run exactly once and the close event has fired exactly once,
\* and no call throws.
C1_DisposeOnce ==
    \A s \in Sessions :
        /\ conn[s].disposed => conn[s].doDisposeCount = 1 /\ conn[s].closeCount = 1
        /\ ~conn[s].disposed => conn[s].doDisposeCount = 0 /\ conn[s].closeCount = 0
        /\ last.s = s /\ last.op \in DisposeCallers => ~last.threw

\* A dispose() whose doDispose re-entered dispose() through onDidDispose.
C1_Witness ==
    /\ last.op = "dispose"
    /\ ~last.pre.disposed
    /\ \E i, j \in DOMAIN ops :
          /\ i < j
          /\ ops[i].op = "onDidDispose"
          /\ ops[j].op = "dispose: already disposed"
    /\ conn[last.s].closeCount = 1

\* C2: a management session's constructor sends exactly one 'ok' and leaves the
\* session online; the protocol's socket-close notification leaves it offline
\* with a timestamp and not disposed; reconnect(newProtocol) sends 'ok' on the
\* new protocol and leaves the session online again -- in every cycle.
C2_ManagementLifecycle ==
    \A s \in Sessions :
        (last.s = s /\ conn[s].kind = "management") =>
            /\ last.op = "newManagement" =>
                  /\ proto[last.p].sent = <<"ok">>
                  /\ conn[s].offline = 0
                  /\ ~conn[s].disposed
            /\ last.op = "socketClose" =>
                  /\ conn[s].offline # 0
                  /\ ~conn[s].disposed
            /\ last.op = "reconnect" =>
                  /\ proto[last.p].sent = <<"ok">>
                  /\ conn[s].offline = 0

\* The second close/reconnect cycle of a management session.
C2_Witness ==
    /\ last.op = "reconnect"
    /\ conn[last.s].kind = "management"
    /\ last.p = 3
    /\ last.pre.offline # 0
    /\ ~conn[last.s].disposed

\* C3: reconnect(newProtocol) on a disposed session fails with an error,
\* swaps no socket, sends no 'ok' and does not bring the session back online.
C3_ReconnectDisposedFails ==
    (last.op = "reconnect" /\ last.pre.disposed) =>
        /\ last.threw
        /\ ~HasOp("beginAcceptReconnection")
        /\ ~(\E i \in DOMAIN ops : ops[i].op = "sendControl" /\ ops[i].m = "ok")
        /\ conn[last.s].offline = last.pre.offline

\* The payload stream of session s as the server holds it: what its protocol
\* has given up, what that protocol has read and not delivered, and what the
\* protocol of a newly accepted socket has read.
StreamOf(s) ==
    conn[s].delivered
        \o (IF conn[s].protocol # 0 THEN proto[conn[s].protocol].incoming ELSE <<>>)
        \o (IF pending[s] # 0 THEN proto[pending[s]].incoming ELSE <<>>)

C5_SwapAtomic ==
    /\ \A p \in DOMAIN proto : ~proto[p].reconnecting
    /\ \A i \in DOMAIN ops :
          ops[i].op = "beginAcceptReconnection" =>
              /\ i < Len(ops)
              /\ ops[i + 1].op = "endAcceptReconnection"
              /\ ops[i + 1].p = ops[i].p

\* A swap that replayed buffered bytes.
C5_Witness ==
    /\ last.op = "reconnect"
    /\ \E i \in DOMAIN ops :
          ops[i].op = "beginAcceptReconnection" /\ ops[i].buf # <<>>

\* C6: ManagementConnection.doReconnect sends 'ok' on the new protocol, then
\* begins the swap on the retained protocol with the new socket and the new
\* protocol's buffered bytes, then ends it, then disposes the new protocol
\* object; afterwards the retained protocol is on the new socket, that socket
\* is not disposed and the session still holds the retained protocol.
C6_DoReconnectOrder ==
    \A s \in Sessions :
        (last.op = "reconnect" /\ last.s = s /\ conn[s].kind = "management") =>
            LET r == conn[s].protocol
                k == proto[last.p].socket
                calls == Calls({"sendControl", "beginAcceptReconnection",
                                "endAcceptReconnection", "protocol.dispose"})
                reads == Calls({"readEntireBuffer"})
            IN  /\ Len(calls) = 4
                /\ calls[1].op = "sendControl" /\ calls[1].p = last.p /\ calls[1].m = "ok"
                /\ calls[2].op = "beginAcceptReconnection" /\ calls[2].p = r
                /\ calls[2].k = k
                /\ Len(reads) = 1 /\ reads[1].p = last.p /\ calls[2].buf = reads[1].buf
                /\ calls[3].op = "endAcceptReconnection" /\ calls[3].p = r
                /\ calls[4].op = "protocol.dispose" /\ calls[4].p = last.p
                /\ r = last.pre.protocol /\ r # last.p
                /\ proto[r].socket = k
                /\ ~sock[k].disposed
                /\ proto[last.p].disposed

\* A management reconnect onto the second socket.
C6_Witness ==
    /\ last.op = "reconnect"
    /\ conn[last.s].kind = "management"
    /\ last.p = 2
    /\ proto[conn[last.s].protocol].socket = 2
    /\ sock[1].disposed

\* C7: when reconnect on an extension-host session has returned, the
\* reconnecting protocol object is disposed, its socket is not, and at most one
\* live protocol object is attached to that socket.
C7_SupersededProtocolDisposed ==
    \A s \in Sessions :
        (last.op = "reconnect" /\ last.s = s /\ conn[s].kind = "exthost" /\ ~last.threw) =>
            LET k == proto[last.p].socket
            IN  /\ proto[last.p].disposed
                /\ ~sock[k].disposed
                /\ Cardinality(Attached(k)) <= 1

\* C8: an offline timestamp, once recorded, changes only by reconnect, which
\* clears it; a further setOffline leaves it as the first call recorded it.
C8_SetOfflineIdempotent ==
    [][\A s \in Sessions :
          (conn[s].offline # 0 /\ conn'[s].offline # conn[s].offline) =>
              /\ last'.op = "reconnect" /\ last'.s = s
              /\ conn'[s].offline = 0]_vars

\* A setOffline on a session that was already offline, at a later clock reading.
C8_Witness ==
    /\ last.op = "disconnected"
    /\ last.pre.offline # 0
    /\ now > last.pre.offline
    /\ conn[last.s].offline = last.pre.offline

SetOfflineCallers == {"socketClose", "disconnected"}

\* C9: setOffline leaves the disposed flag and the protocol alone, runs no
\* doDispose and fires no close event; and a management session is closed only
\* by the protocol's dispose notification or by an explicit dispose().
C9_SetOfflineFrame ==
    [][\A s \in Sessions :
          /\ (last'.op \in SetOfflineCallers /\ last'.s = s) =>
                /\ conn'[s].disposed = conn[s].disposed
                /\ conn'[s].protocol = conn[s].protocol
                /\ conn'[s].doDisposeCount = conn[s].doDisposeCount
                /\ conn'[s].closeCount = conn[s].closeCount
                /\ proto'[conn[s].protocol].disposed = proto[conn[s].protocol].disposed
          /\ (conn[s].kind = "management" /\ conn'[s].closeCount # conn[s].closeCount) =>
                last'.op \in {"dispose", "onDidDispose"}]_vars

\* A management session taken offline by a socket close, and still open.
C9_Witness ==
    /\ last.op = "socketClose"
    /\ conn[last.s].kind = "management"
    /\ conn[last.s].offline # 0
    /\ ~conn[last.s].disposed
    /\ conn[last.s].closeCount = 0

\* C10: under every interleaving of control messages, the handshake timer and
\* the socket's close, resolve/reject is called at most once for a handshake;
\* once the promise has settled, cleanup has run exactly once, the timer is
\* cleared and both listeners are disposed; and no later event changes the
\* outcome, calls resolve or reject again, or sends another challenge.
C10_HandshakeSettlesOnce ==
    /\ [](/\ hs.settleCalls <= 1
          /\ hs.promise \in Settled =>
                /\ hs.settleCalls = 1
                /\ hs.cleanups = 1
                /\ ~hs.timeout /\ ~hs.handler /\ ~hs.onClose)
    /\ [][hs.promise \in Settled =>
             /\ hs'.promise = hs.promise
             /\ hs'.value = hs.value
             /\ hs'.error = hs.error
             /\ hs'.settleCalls = hs.settleCalls
             /\ hs'.cleanups = hs.cleanups
             /\ hs'.signs = hs.signs]_vars

\* A handshake completed by 'connectionType', after which another control
\* message arrived, the timer came due and the socket closed.
C10_Witness ==
    /\ hs.promise = "resolved"
    /\ hs.value.type = "connectionType"
    /\ hs.arrived >= 2
    /\ hs.elapsed = HANDSHAKE_TIMEOUT_DURATION
    /\ hs.socketClosed
    /\ hs.late = 3

ListenersAtBaseline == ~hs.handler /\ ~hs.onClose /\ ~hs.timeout

\* C11: when the handshake timer fires on a pending handshake the promise
\* rejects with the timeout error, and when the socket closes on a pending
\* handshake it rejects with the socket-closed error; either way no connection
\* request is returned and the handshake's listeners and timer are gone.
C11_TimeoutAndCloseReject ==
    /\ (hs.event.kind = "timer" /\ hs.event.found = "pending") =>
          /\ hs.promise = "rejected"
          /\ hs.error = "Protocol handshake timed out"
          /\ hs.value = NoValue
          /\ ListenersAtBaseline
    /\ (hs.event.kind = "close" /\ hs.event.found = "pending") =>
          /\ hs.promise = "rejected"
          /\ hs.error = "Protocol socket closed unexpectedly"
          /\ hs.value = NoValue
          /\ ListenersAtBaseline

\* The timer fired on a handshake that had seen only an 'auth' message.
C11_Witness ==
    /\ hs.event.kind = "timer"
    /\ hs.event.found = "pending"
    /\ hs.arrived >= 1
    /\ hs.promise = "rejected"
    /\ ~hs.socketClosed

Malformed(raw) == ~raw.json \/ raw.type \notin {"auth", "connectionType"}

\* C12: a control message that does not parse, or whose type is neither
\* 'auth' nor 'connectionType', rejects the pending handshake with the error
\* thrown and runs cleanup; nothing thrown leaves the listener.
C12_MalformedRejects ==
    /\ hs.exception = ""
    /\ (hs.event.kind = "message" /\ hs.event.found = "pending"
            /\ Malformed(hs.event.raw)) =>
          /\ hs.promise = "rejected"
          /\ hs.error = (IF hs.event.raw.json THEN "Unrecognized message type"
                         ELSE "SyntaxError")
          /\ hs.value = NoValue
          /\ hs.cleanups = 1
          /\ ListenersAtBaseline

\* Text that is not JSON arrived on a pending handshake.
C12_Witness ==
    /\ hs.event.kind = "message"
    /\ hs.event.found = "pending"
    /\ ~hs.event.raw.json
    /\ hs.promise = "rejected"

\* C13: the handshake completes only on a 'connectionType' message that was
\* received after an 'auth' message.
C13_CompleteOnlyAfterAuth ==
    hs.promise = "resolved" => hs.signs >= 2

\* C14: handshake() sends one challenge on entry; every 'auth' message on a
\* pending handshake sends exactly one more and leaves the handshake pending
\* with its listeners and timer in place; a 'connectionType' message resolves
\* the promise with that very message and sends nothing.
C14_ChallengePerAuth ==
    /\ hs.event.kind = "call" => hs.signs = 1 /\ hs.promise = "pending"
    /\ (hs.event.kind = "message" /\ hs.event.found = "pending"
            /\ hs.event.raw.json /\ hs.event.raw.type = "auth") =>
          /\ hs.signs = hs.event.signs + 1
          /\ hs.promise = "pending"
          /\ hs.settleCalls = 0 /\ hs.cleanups = 0
          /\ hs.handler /\ hs.onClose /\ hs.timeout
    /\ (hs.event.kind = "message" /\ hs.event.found = "pending"
            /\ hs.event.raw.json /\ hs.event.raw.type = "connectionType") =>
          /\ hs.promise = "resolved"
          /\ hs.value = hs.event.raw
          /\ hs.signs = hs.event.signs

\* Two 'auth' messages, then a 'connectionType' carrying a reconnection token.
C14_Witness ==
    /\ hs.event.kind = "message"
    /\ hs.promise = "resolved"
    /\ hs.signs = 3
    /\ hs.value.desiredConnectionType = "ExtensionHost"
    /\ hs.value.reconnectionToken = "token"

\* C15: a session exists only for a handshake that completed; once the caller
\* has handled a failed handshake, the protocol and its socket are disposed
\* and no session has been made.
C15_FailedHandshakeTornDown ==
    /\ (\E s \in Sessions : conn[s].kind # "none") =>
          /\ hs.promise = "resolved"
          /\ hs.value.desiredConnectionType \in {"Management", "ExtensionHost"}
    /\ (hs.promise = "rejected" /\ pending[1] = 0) =>
          /\ proto[1].disposed
          /\ sock[1].disposed
          /\ \A s \in Sessions : conn[s].kind = "none"
    /\ last.op = "handshakeFailed" => ~last.threw

\* A handshake that failed on text that is not JSON, torn down.
C15_Witness ==
    /\ last.op = "handshakeFailed"
    /\ hs.promise = "rejected"
    /\ hs.error = "SyntaxError"
    /\ proto[1].disposed
    /\ sock[1].disposed
    /\ proto[1].sent = <<"error: SyntaxError", "disconnect">>

\* The names of the calls in a sequence of calls.
Names(calls) == [i \in DOMAIN calls |-> calls[i].op]

\* C17: destroy(reason?) sends the error message carrying the reason when one
\* is given, then the disconnect message, then disposes the protocol, then
\* the socket; when a send throws, the rest of the sends is skipped, the
\* error is logged and not rethrown, and protocol and socket are disposed
\* all the same.
C17_DestroyOrder ==
    LET d == Calls({"destroy"})
        calls == Calls({"sendControl", "sendControl: threw", "logger.warn",
                        "protocol.dispose", "socket.dispose"})
    IN  (last.op \in {"dispose", "handshakeFailed"} /\ Len(d) = 1) =>
            LET reason == d[1].m
                p == d[1].p
                k == d[1].k
                first == IF reason # "" THEN "error: " \o reason ELSE "disconnect"
            IN  /\ ~last.threw
                /\ proto[p].disposed
                /\ sock[k].disposed
                /\ \A i \in DOMAIN calls : calls[i].op # "logger.warn" => calls[i].p = p \/ calls[i].k = k
                /\ IF HasOp("sendControl: threw")
                   THEN /\ Names(calls) = <<"sendControl: threw", "logger.warn",
                                            "protocol.dispose", "socket.dispose">>
                        /\ calls[1].m = first
                   ELSE IF reason # ""
                   THEN /\ Names(calls) = <<"sendControl", "sendControl",
                                            "protocol.dispose", "socket.dispose">>
                        /\ calls[1].m = first
                        /\ calls[2].m = "disconnect"
                   ELSE /\ Names(calls) = <<"sendControl", "protocol.dispose",
                                            "socket.dispose">>
                        /\ calls[1].m = "disconnect"

\* A destroy with a reason whose first send threw.
C17_Witness ==
    /\ last.op = "handshakeFailed"
    /\ HasOp("logger.warn")
    /\ \E i \in DOMAIN ops : ops[i].op = "destroy" /\ ops[i].m # ""
    /\ proto[1].disposed
    /\ sock[1].disposed
    /\ proto[1].sent = <<>>

C18_ExtHostDisposeDestroys ==
    (/\ last.op = "dispose"
     /\ ~last.pre.disposed
     /\ conn[last.s].kind = "exthost") =>
        LET r == last.pre.protocol
        IN  /\ HasOp("destroy")
            /\ HasOp("sendControl") \/ HasOp("sendControl: threw")
            /\ proto[r].disposed
            /\ sock[proto[r].socket].disposed
            /\ conn[last.s].clientProcess \in {"none", "disposed"}

\* C20: the child process is handed the socket only once it has reported
\* ready, when the session starts and when it reconnects.
C20_HandoffAfterReady ==
    \A i \in DOMAIN ops :
        ops[i].op = "child: socket received" => ops[i].m = "ready"

\* The bytes of socket k that this process has read and still holds.
HeldByParent(k) == {p \in DOMAIN proto : proto[p].socket = k /\ proto[p].incoming # <<>>}

\* The bytes read from a socket that was accepted for session s and has not
\* been given to reconnect() yet.
NotYetReconnected(s) == IF pending[s] # 0 THEN proto[pending[s]].incoming ELSE <<>>

\* C19: when the child is handed a socket, on start and on reconnect, reading
\* of that socket is paused in this process, and the chunk handed over with it
\* is everything this process had read from it: no byte stays behind in a
\* protocol of this process, and the child has every byte received so far
\* once, in order.
C19_HandoffByteAccounting ==
    \A i \in DOMAIN ops :
        (ops[i].op = "child: socket received" /\ ops[i].m = "ready") =>
            /\ sock[ops[i].k].paused
            /\ HeldByParent(ops[i].k) = {}
            /\ conn[last.s].childGot \o NotYetReconnected(last.s)
                  = [b \in 1..recv[last.s] |-> b]

\* The handler that ran last tried the handoff and the send reported that the
\* message was not sent.
HandoffNotSent == HasOp("sendIPCMessage") /\ ~HasOp("child: socket received")

\* C21: when the handoff message is not delivered to the child, the start or
\* reconnect it belongs to fails: the promise of start() is rejected, and
\* reconnect raises an error.
C21_FailedHandoffExplicit ==
    HandoffNotSent =>
        /\ last.op = "ready" => conn[last.s].startPc = "rejected"
        /\ last.op = "reconnect" => last.threw

\* C22: the promise of start() is never left where no step can settle it:
\* while it is pending, either generateClientOptions is still running or the
\* child process is alive and can still report ready.
C22_StartNeverStuck ==
    \A s \in Sessions :
        \/ conn[s].startPc \in {"idle", "generating", "resolved", "rejected"}
        \/ conn[s].startPc = "spawned" /\ conn[s].clientProcess = "running"

\* C23: once terminate() has set terminating, every step leaves it set.
C23_TerminatingMonotonic ==
    [][\A s \in Sessions : conn[s].terminating => conn'[s].terminating]_vars

\* A second terminate(), and a child exit, on a session that is terminating.
C23_Witness ==
    /\ last.op = "terminate"
    /\ conn[last.s].terminating
    /\ conn[last.s].terminatePc = "done"
    /\ conn[last.s].clientProcess = "exited"
    /\ ops = <<>>

\* C24: a child exit is logged at error level exactly when the session is not
\* terminating.
C24_ErrorLogIffNotTerminating ==
    last.op = "exit" =>
        (HasOp("logService.error") <=> ~conn[last.s].terminating)

\* C25: every child exit disposes the session and fires the exit event once,
\* with the exit's code and signal, whether or not the session is terminating.
C25_ExitEventAlways ==
    last.op = "exit" =>
        /\ conn[last.s].disposed
        /\ Len(Calls({"onExit.fire"})) = 1

\* The commands a channel handler implements.
Implemented(channel) ==
    CASE channel = "file" -> FileCommands
      [] channel = "terminal" -> {"$createProcess", "$sendCommandResult"} \cup PtyServiceMethods
      [] channel = "environment" ->
            {"getEnvironmentData", "scanExtensions", "getDiagnosticInfo",
             "disableTelemetry", "logTelemetry", "flushTelemetry"}
      [] OTHER -> {}

\* C26: a call with a command the channel's handler does not implement ends
\* in the error "Invalid call '<command>'", thrown or as a rejected promise,
\* never in a result, and leaves the fields of every channel as they were.
C26_UnknownCommandRejected ==
    [][(/\ chan'.out.op = "call"
        /\ chan'.out.name \notin Implemented(chan'.out.channel)) =>
            /\ chan'.out.kind \in {"throws", "rejects"}
            /\ chan'.out.error = "Invalid call '" \o chan'.out.name \o "'"
            /\ chan' = [chan EXCEPT !.out = chan'.out]]_vars

\* The terminal channel was called with a command of the file channel while
\* a request was pending, and the file channel with a command of no channel.
C26_Witness ==
    \/ /\ chan.out = [channel |-> "terminal", op |-> "call", name |-> "stat",
                      kind |-> "rejects", error |-> "Invalid call 'stat'"]
       /\ chan.pendingRequests # {}
       /\ ~chan.telemetryEnabled
    \/ /\ chan.out = [channel |-> "file", op |-> "call", name |-> "bogus",
                      kind |-> "throws", error |-> "Invalid call 'bogus'"]
       /\ chan.emitter # <<>>
       /\ ~chan.telemetryEnabled

\* The events a channel handler implements.
ImplementedEvents(channel) ==
    CASE channel = "file" -> {"filechange", "readFileStream"}
      [] channel = "terminal" -> {"$onExecuteCommand"} \cup PtyServiceEvents
      [] channel = "terminalEarlier" -> {"$onExecuteCommand"} \cup EarlierTerminalEvents
      [] OTHER -> {}

\* C27: a listen with an event the channel's handler does not implement
\* fails with the error "Invalid listen '<event>'" and never returns an event.
C27_UnknownEventRejected ==
    (/\ chan.out.op = "listen"
     /\ chan.out.name \notin ImplementedEvents(chan.out.channel)) =>
        /\ chan.out.kind = "throws"
        /\ chan.out.error = "Invalid listen '" \o chan.out.name \o "'"

\* The watchers that have not been disposed.
LiveWatchers == {x \in DOMAIN chan.watcher : ~chan.watcher[x].disposed}

\* C28: every watcher that was created has been disposed or still has a
\* listener on the emitter it fires into; a session has at most one live
\* watcher, and the watchers map holds it.
C28_WatchersRefCounted ==
    /\ \A x \in LiveWatchers : chan.emitter[chan.watcher[x].emitter].listeners > 0
    /\ \A x, y \in LiveWatchers :
          chan.watcher[x].session = chan.watcher[y].session => x = y
    /\ \A x \in LiveWatchers : chan.watchers[chan.watcher[x].session] = x

\* C29: the registry never holds a name twice; initChannels registers its
\* eight names without an error; and registering a name that is registered
\* already ends the startup with an error and leaves the registry as it was.
C29_ChannelNamesUnique ==
    [][/\ \A i, j \in DOMAIN chan'.registry :
              chan'.registry[i] = chan'.registry[j] => i = j
       /\ chan.registry = <<>> =>
              /\ chan'.registry = InitChannelNames
              /\ ~chan'.fatal
       /\ (/\ chan'.out.op = "registerChannel"
           /\ \E i \in DOMAIN chan.registry : chan.registry[i] = chan'.out.channel) =>
              /\ chan'.fatal
              /\ chan'.registry = chan.registry]_vars

\* The log-level channel was registered again after initChannels.
C29_Witness ==
    /\ chan.fatal
    /\ chan.registry = InitChannelNames
    /\ chan.out.op = "registerChannel"
    /\ chan.out.channel = "logger"

\* What session t holds: its pending and current protocol, and their sockets.
ProtocolsOf(t) == {pending[t], conn[t].protocol} \ {0}

SocketsOf(t) == {proto[p].socket : p \in ProtocolsOf(t)} \cup ({conn[t].childSocket} \ {0})

\* C30: a step taken on one session (dispose, setOffline, reconnect, a failed
\* handshake, a child exit, or any other handler) leaves every other session
\* as it was: its fields (disposed, offline, protocol, child process, the
\* count of close events), its protocols and its sockets are unchanged, and
\* no call of the handler is made on one of its protocols.
C30_FailureIsolation ==
    [][\A t \in DOMAIN conn :
          last'.s # t =>
             /\ conn'[t] = conn[t]
             /\ pending'[t] = pending[t]
             /\ \A p \in ProtocolsOf(t) : proto'[p] = proto[p]
             /\ \A k \in SocketsOf(t) : sock'[k] = sock[k]
             /\ \A i \in DOMAIN ops' : ops'[i].p \notin ProtocolsOf(t)]_vars

\* Session 1 has been closed by dispose() while session 2 is a live extension
\* host session with a running child process.
C30_Witness ==
    /\ last.op = "dispose" /\ last.s = 1
    /\ conn[1].disposed /\ conn[1].closeCount = 1
    /\ 2 \in DOMAIN conn
    /\ conn[2].kind = "exthost" /\ conn[2].clientProcess = "running"
    /\ ~conn[2].disposed /\ conn[2].closeCount = 0
    /\ ~proto[conn[2].protocol].disposed

\* C31: no child process outlives its session.  Once the session is disposed,
\* a child process running for it (also one created after the dispose call,
\* by a spawn that was still in progress) is eventually stopped.
C31_NoChildOutlivesSession ==
    \A s \in Sessions :
        (conn[s].disposed /\ conn[s].clientProcess = "running")
            ~> (conn[s].clientProcess # "running")

\* C32: every handoff message delivered to the child carries the socket that
\* is attached to the session's protocol when it is sent, not a socket that a
\* reconnect has superseded since start() took its snapshot.
C32_HandoffCarriesCurrentSocket ==
    \A i \in DOMAIN ops :
        ops[i].op = "child: socket received" =>
            ops[i].k = proto[conn[last.s].protocol].socket

\* C33: a reconnect on an extension host session that has no child process
\* yet fails with an error and changes nothing: offlineSince keeps its value
\* and the retained protocol keeps its socket (it has not taken the socket of
\* the reconnecting protocol).
C33_ReconnectWithoutChildFails ==
    (/\ last.op = "reconnect"
     /\ conn[last.s].kind \in {"exthost", "exthostEarlier"}
     /\ conn[last.s].clientProcess = "none") =>
        /\ last.threw
        /\ conn[last.s].offline = last.pre.offline
        /\ proto[conn[last.s].protocol].socket # proto[last.p].socket

\* C34: graceful termination order.  When the continuation of terminate()
\* sends the Terminate message, the session's protocol is still live (not yet
\* disposed) and the child process has not been told to stop yet.
C34_TerminateSentWhileLive ==
    [][(last'.op = "terminateSettled" /\ \E i \in DOMAIN ops' : ops'[i].op = "send") =>
          /\ ~proto[conn[last'.s].protocol].disposed
          /\ conn[last'.s].clientProcess # "disposed"]_vars

\* C35: once the adapter has received the WebSocket's close event, or close(),
\* end() or dispose() has been called, a write passes nothing to the
\* underlying WebSocket: the data is dropped.
C35_NoWriteAfterClose ==
    [][(wsock'.step.op = "write" /\ (wsock.closeEvent \/ wsock.closeCalled)) =>
          /\ wsock'.wsSent = wsock.wsSent
          /\ wsock'.dropped = wsock.dropped + 1]_vars

\* A write got through while the socket was open and a later one, after
\* dispose(), has been dropped.
C35_Witness ==
    /\ wsock.step.op = "write"
    /\ wsock.closeCalled
    /\ wsock.wsSent = 1
    /\ wsock.dropped = 1

\* The error events of the WebSocket itself that the listeners have observed.
DeliveredErrors ==
    SelectSeq(wsock.events, LAMBDA e : e.kind = "error" /\ e.err.name = "error")

\* C36: an error event is held back.  When the close event arrives while an
\* error is pending, the listeners observe exactly one error and then the
\* close: the pending error for a clean close, a TemporarilyNotAvailable
\* error built from the close reason or code for an unclean one, and nothing
\* stays pending or scheduled.  A later error replaces an undelivered earlier
\* one, and no error is delivered twice.
C36_ErrorBeforeClose ==
    [][/\ (wsock'.step.op = "close" /\ wsock.listening
            /\ wsock.pendingErrorEvent # NoError) =>
              /\ wsock'.events = wsock.events \o
                    << [kind |-> "error",
                        err |-> IF wsock'.step.wasClean THEN wsock.pendingErrorEvent
                                ELSE wsock'.step.err],
                       [kind |-> "close",
                        err |-> [NoError EXCEPT !.name = IF wsock'.step.wasClean
                                                         THEN "clean" ELSE "unclean"]] >>
              /\ wsock'.pendingErrorEvent = NoError
              /\ ~wsock'.scheduled
       /\ (wsock'.step.op = "error" /\ wsock.listening) =>
              /\ wsock'.pendingErrorEvent = wsock'.step.err
              /\ wsock'.events = wsock.events
       /\ \A i, j \in DOMAIN DeliveredErrors' :
              DeliveredErrors'[i] = DeliveredErrors'[j] => i = j
       /\ \A i \in DOMAIN wsock'.events : wsock'.events[i].err # NoError]_vars

\* Two errors arrived, the second replaced the first, and an unclean close
\* delivered one TemporarilyNotAvailable error and then the close event.
C36_Witness ==
    /\ wsock.step.op = "close"
    /\ ~wsock.step.wasClean
    /\ wsock.errors = 2
    /\ Len(wsock.events) = 2
    /\ wsock.events[1].err.name = "TemporarilyNotAvailable"
    /\ wsock.events[1].err.message = "WebSocket close with status code 1006"
    /\ wsock.events[2].kind = "close"

\* The registration that was made last under its request id.
Latest(i) ==
    \A j \in DOMAIN store.entries :
        store.entries[j].requestId = store.entries[i].requestId => j <= i

\* C40: a callback registered under a request id stays retrievable until it
\* is fetched, the service is disposed or its own timeout elapses, also when
\* the same request id was registered before; and dispose leaves no entry and
\* no armed timer.
C40_CallbackRetrievable ==
    /\ \A i \in DOMAIN store.entries :
          (/\ Latest(i)
           /\ ~store.entries[i].fetched
           /\ ~store.disposed
           /\ store.entries[i].elapsed < GraceTicks) =>
              store.map[store.entries[i].requestId] = i
    /\ store.disposed =>
          /\ \A r \in RequestIds : store.map[r] = 0
          /\ \A i \in DOMAIN store.entries : ~store.entries[i].armed

\* The promise of request reqId.
RequestOf(c, reqId) ==
    CHOOSE r \in {c.requests[i] : i \in DOMAIN c.requests} : r.id = reqId

\* C37: the request ids issued by executeCommand are strictly increasing and
\* never reused; the pending entry is registered before the event is fired;
\* a result for a pending id removes the entry and resolves (isError false) or
\* rejects (isError true) the promise, so that each promise is settled at most
\* once; a result for an id that is not pending changes nothing.
C37_PendingCommands ==
    [][/\ \A i, j \in DOMAIN chan'.requests :
             i < j => chan'.requests[i].id < chan'.requests[j].id
       /\ \A i \in DOMAIN chan'.requests :
             /\ chan'.requests[i].settleCalls <= 1
             /\ chan'.requests[i].fired = 1
             /\ chan'.requests[i].pendingAtFire
       /\ (chan'.out.op = "call" /\ chan'.out.name = "$sendCommandResult") =>
             IF chan'.result.reqId \in chan.pendingRequests
             THEN /\ chan'.pendingRequests = chan.pendingRequests \ {chan'.result.reqId}
                  /\ RequestOf(chan, chan'.result.reqId).state = "pending"
                  /\ RequestOf(chan', chan'.result.reqId).state =
                        IF chan'.result.isError THEN "rejected" ELSE "resolved"
                  /\ \A i \in DOMAIN chan.requests :
                        chan.requests[i].id # chan'.result.reqId =>
                            chan'.requests[i] = chan.requests[i]
             ELSE /\ chan'.pendingRequests = chan.pendingRequests
                  /\ chan'.requests = chan.requests
                  /\ chan'.lastRequestId = chan.lastRequestId]_vars

\* Request 1 has been rejected, request 2 resolved, request 3 is pending, and
\* a second result for request 1 has just been ignored.
C37_Witness ==
    /\ chan.out.name = "$sendCommandResult" /\ chan.out.kind = "warn"
    /\ chan.result.reqId = 1
    /\ chan.lastRequestId = 3
    /\ chan.pendingRequests = {3}
    /\ RequestOf(chan, 1).state = "rejected"
    /\ RequestOf(chan, 2).state = "resolved"

\* C38: every promise returned by executeCommand is eventually settled, also
\* when the channel is disposed meanwhile: a promise that is still pending
\* has its entry in the map, so that a result (or the disposal) can settle it.
C38_EveryCommandSettles ==
    \A i \in DOMAIN chan.requests :
        chan.requests[i].state = "pending" =>
            chan.requests[i].id \in chan.pendingRequests

\* C39: each watch registered by watch(session, req) is disposed exactly once,
\* by unwatch(session, req) or with its watcher, also when the same req is
\* registered twice: a watch is never disposed twice, and one that has not
\* been disposed yet is still held by its watcher under its req.
C39_WatchDisposedOnce ==
    \A d \in DOMAIN chan.disposables :
        /\ chan.disposables[d].disposeCalls <= 1
        /\ chan.disposables[d].disposeCalls = 0 =>
              d \in chan.watcher[chan.disposables[d].watcher].watches

====
